---- MODULE Spec2Model ----
(***************************************************************************)
(* The document resource registry of remarkable_mcp/resources.py:          *)
(* _register_document, the background loader _load_documents_background    *)
(* and stop_background_loader, over a document store.                      *)
(*                                                                         *)
(* Text (paths, names, URIs) is a sequence of one-character strings, so    *)
(* that percent-encoding, the "_<n>.txt" decoration and the aliasing of a  *)
(* decorated URI with the URI of a path that itself ends in "_<n>" are     *)
(* computed and not assumed.                                               *)
(***************************************************************************)
EXTENDS Integers, Sequences, FiniteSets, TLC

(***************************************************************************)
(* Bounds of the model.                                                    *)
(***************************************************************************)
\* ids of the documents handed to direct _register_document calls
MaxDocs == 3
\* registrations that may raise in one behaviour
MaxRegErrors == 1
\* length of the store listing the loader runs over
MaxItems == 11
\* folders in a store listing
MaxFolders == 1

(***************************************************************************)
(* Program constants.                                                      *)
(***************************************************************************)
batch_size == 10
max_consecutive_errors == 3

VARIABLES
    registered_docs,    \* _registered_docs: ids of the registered documents
    registered_uris,    \* _registered_uris: URIs handed out
    resources,          \* the resources exposed through mcp.resource, in call order
    last_call,          \* history: the last _register_document call, its document and outcome
    reg_errors,         \* registrations that raised so far
    store,              \* the store's listing (fixed during a behaviour)
    pc,                 \* position of the loader coroutine
    offset,
    consecutive_errors,
    items,              \* result of the last successful fetch
    items_by_id,
    batch_docs,
    batch_pos,          \* index in batch_docs of the next document of the for loop
    limit,              \* limit of the fetch in flight
    sleep_for,          \* argument of the asyncio.sleep in progress, in tenths
    shutdown_event,
    cancel_requested,   \* task.cancel() was called and not yet delivered
    stopper,            \* position of stop_background_loader
    stopped_at,         \* history: loader position when stop_background_loader was called
    err_run,            \* history: failed fetches since the last successful one
    fetch_failed,       \* history: some fetch failed
    recovered,          \* history: a fetch succeeded after two consecutive failed ones
    last_fetch,         \* history: outcome of the last fetch
    exit_reason,        \* history: which break ended the loader
    stopper2,           \* position of a second stop_background_loader call on the same handle
    sync_pc,            \* position of load_all_documents_sync
    sync_docs,          \* its documents
    sync_index,         \* its items_by_id
    sync_pos,           \* index in sync_docs of the next document of its for loop
    sync_ret,           \* its return value
    sync_calls,         \* calls of load_all_documents_sync so far
    sync_fetches,       \* history: store fetches of the call in progress
    sync_failed,        \* history: a registration raised in the call in progress
    sync_new,           \* history: documents the call in progress registered
    prev_clean,         \* history: an earlier call returned without a failed registration
    prev_ret,           \* history: return value of the call before
    device,             \* the tablet behind the USB web interface: folder id -> entries
    usb_documents,      \* USBWebClient._documents
    usb_failed,         \* history: a request of the last USB listing failed
    ocr_in,             \* input of the OCR batch call: the environment and the pages
    ocr_out,            \* outcome of the OCR batch call
    samp_pages,         \* png_data_list of ocr_pages_via_sampling
    samp_pos,           \* index of the page its for loop is at
    samp_results,       \* results
    has_any_result,
    samp_ret,           \* its return value
    fn_in,              \* input of the call of a backend-selection or sampling function
    fn_out,             \* its outcome
    read_out,           \* history: the last resource read and what it returned
    downloads,          \* history: the documents the last resource read called download for
    usb_call,           \* history: the last direct get_meta_items call and its result
    loader2,            \* a second background loader task: its locals and position
    walk                \* one get_meta_items call taken step by step: its locals

registry == <<registered_docs, registered_uris, resources>>
callVars == <<last_call, reg_errors>>
loaderVars == <<pc, offset, consecutive_errors, items, items_by_id, batch_docs,
                batch_pos, limit, sleep_for>>
taskVars == <<shutdown_event, cancel_requested, stopper, stopped_at, stopper2>>
histVars == <<err_run, fetch_failed, recovered, last_fetch, exit_reason>>
syncVars == <<sync_pc, sync_docs, sync_index, sync_pos, sync_ret, sync_calls,
              sync_fetches, sync_failed, sync_new, prev_clean, prev_ret>>
usbVars == <<device, usb_documents, usb_failed>>
ocrVars == <<ocr_in, ocr_out, samp_pages, samp_pos, samp_results, has_any_result,
             samp_ret>>
restVars == <<syncVars, usbVars, ocrVars>>
extVars == <<fn_in, fn_out, read_out, downloads, usb_call, walk, loader2>>
vars == <<registered_docs, registered_uris, resources, last_call, reg_errors, store,
          pc, offset, consecutive_errors, items, items_by_id, batch_docs,
          batch_pos, limit, sleep_for, shutdown_event, cancel_requested,
          stopper, stopped_at, err_run, fetch_failed, recovered, last_fetch,
          exit_reason, stopper2, sync_pc, sync_docs, sync_index, sync_pos,
          sync_ret, sync_calls, sync_fetches, sync_failed, sync_new, prev_clean,
          prev_ret, device, usb_documents, usb_failed, ocr_in, ocr_out,
          samp_pages, samp_pos, samp_results, has_any_result, samp_ret,
          fn_in, fn_out, read_out, downloads, usb_call, walk, loader2>>

(***************************************************************************)
(* Text.                                                                   *)
(***************************************************************************)
Min(a, b) == IF a < b THEN a ELSE b

DigitChar == <<"0", "1", "2", "3", "4", "5", "6", "7", "8", "9">>

\* str(n) of a natural number
RECURSIVE NatStr(_)
NatStr(n) ==
    IF n < 10 THEN <<DigitChar[n + 1]>>
    ELSE NatStr(n \div 10) \o <<DigitChar[(n % 10) + 1]>>

\* characters urllib.parse.quote leaves alone with safe="/"
Unreserved == {"a", "b", "f", "d", "_", ".", "-", "~", "/",
               "0", "1", "2", "3", "4", "5", "6", "7", "8", "9"}

PercentCode(c) ==
    CASE c = " " -> <<"%", "2", "0">>
      [] c = "%" -> <<"%", "2", "5">>
      [] c = "(" -> <<"%", "2", "8">>
      [] c = ")" -> <<"%", "2", "9">>
      [] OTHER   -> <<"%", "3", "F">>

\* quote(uri_path, safe="/")
RECURSIVE Quote(_)
Quote(s) ==
    IF s = <<>> THEN <<>>
    ELSE (IF Head(s) \in Unreserved THEN <<Head(s)>> ELSE PercentCode(Head(s)))
         \o Quote(Tail(s))

\* full_path.lstrip("/")
RECURSIVE Lstrip(_)
Lstrip(s) ==
    IF s # <<>> /\ Head(s) = "/" THEN Lstrip(Tail(s)) ELSE s

Scheme == <<"remarkable://">>
TxtSuffix == <<".", "t", "x", "t">>

(***************************************************************************)
(* Items and path resolution.  An item is a record                         *)
(*   [ID, VissibleName, is_folder, Parent, ModifiedClient];                *)
(* Parent 0 is the root, ModifiedClient 0 is None.                         *)
(***************************************************************************)
EmptyIndex == <<>>

\* get_items_by_id(items): the dict from id to item
GetItemsById(its) ==
    [id \in {its[i].ID : i \in DOMAIN its} |->
        LET last == CHOOSE i \in DOMAIN its :
                        /\ its[i].ID = id
                        /\ \A j \in DOMAIN its : its[j].ID = id => j <= i
        IN  its[last]]

\* the path of the item from the root: the names of its known ancestors and
\* its own, each after a "/"; an unknown parent is taken as the root, and the
\* walk gives up after as many steps as the index has items
RECURSIVE PathFrom(_, _, _)
PathFrom(item, index, fuel) ==
    IF item.Parent \in DOMAIN index /\ fuel > 0
    THEN PathFrom(index[item.Parent], index, fuel - 1) \o <<"/">> \o item.VissibleName
    ELSE <<"/">> \o item.VissibleName

GetItemPath(item, index) == PathFrom(item, index, Cardinality(DOMAIN index))

(***************************************************************************)
(* _register_document.                                                     *)
(***************************************************************************)
\* a registration that forgets the id check
AlreadyRegisteredNever(doc_id) == FALSE

AlreadyRegistered(doc_id) == doc_id \in registered_docs

FullPath(doc, index) ==
    IF DOMAIN index # {} THEN GetItemPath(doc, index)
    ELSE <<"/">> \o doc.VissibleName

EncodedPath(full_path) == Quote(Lstrip(full_path))

BaseUri(full_path) == Scheme \o EncodedPath(full_path) \o TxtSuffix

CounterUri(full_path, counter) ==
    Scheme \o EncodedPath(full_path) \o <<"_">> \o NatStr(counter) \o TxtSuffix

CounterName(full_path, counter) ==
    full_path \o <<" ", "(">> \o NatStr(counter) \o <<")">> \o TxtSuffix

\* the while loop of lines 198-202
RECURSIVE CollisionLoop(_, _, _, _, _)
CollisionLoop(final_uri, display_name, counter, full_path, uris) ==
    IF final_uri \in uris
    THEN CollisionLoop(CounterUri(full_path, counter),
                       CounterName(full_path, counter),
                       counter + 1, full_path, uris)
    ELSE [uri |-> final_uri, name |-> display_name]

\* a registration that does not look for a free URI
FinalUriNoLoop(full_path, uris) ==
    [uri |-> BaseUri(full_path), name |-> full_path \o TxtSuffix]

\* a collision counter that starts at 2
FinalUriFromTwo(full_path, uris) ==
    CollisionLoop(BaseUri(full_path), full_path \o TxtSuffix, 2, full_path, uris)

FinalUri(full_path, uris) ==
    CollisionLoop(BaseUri(full_path), full_path \o TxtSuffix, 1, full_path, uris)

Description(full_path, doc) == [path |-> full_path, modified |-> doc.ModifiedClient]

\* a registration that looks for a free URI in a set read before an await,
\* here the empty one
RegisterNewStale(doc, index) ==
    LET full_path == FullPath(doc, index)
        final     == FinalUri(full_path, {})
    IN  /\ resources' = Append(resources,
                               [uri |-> final.uri, name |-> final.name,
                                description |-> Description(full_path, doc),
                                doc |-> doc.ID])
        /\ registered_docs' = registered_docs \cup {doc.ID}
        /\ registered_uris' = registered_uris \cup {final.uri}
        /\ last_call' = [doc |-> doc.ID, ret |-> "True"]
        /\ UNCHANGED reg_errors

\* a registration that fails between line 212 and line 213
RegisterNewThenRaises(doc, index) ==
    LET full_path == FullPath(doc, index)
        final     == FinalUri(full_path, registered_uris)
    IN  /\ resources' = Append(resources,
                               [uri |-> final.uri, name |-> final.name,
                                description |-> Description(full_path, doc),
                                doc |-> doc.ID])
        /\ registered_docs' = registered_docs \cup {doc.ID}
        /\ registered_uris' = registered_uris
        /\ last_call' = [doc |-> doc.ID, ret |-> "raised"]
        /\ UNCHANGED reg_errors

\* the call ran to line 214
RegisterNew(doc, index) ==
    LET full_path == FullPath(doc, index)
        final     == FinalUri(full_path, registered_uris)
    IN  /\ resources' = Append(resources,
                               [uri |-> final.uri, name |-> final.name,
                                description |-> Description(full_path, doc),
                                doc |-> doc.ID])
        /\ registered_docs' = registered_docs \cup {doc.ID}
        /\ registered_uris' = registered_uris \cup {final.uri}
        /\ last_call' = [doc |-> doc.ID, ret |-> "True"]
        /\ UNCHANGED reg_errors

\* a registration that records the id before it raises
RegisterRaisesKeepsId(doc) ==
    /\ reg_errors < MaxRegErrors
    /\ reg_errors' = reg_errors + 1
    /\ last_call' = [doc |-> doc.ID, ret |-> "raised"]
    /\ registered_docs' = registered_docs \cup {doc.ID}
    /\ UNCHANGED <<registered_uris, resources>>

\* the call raised in get_item_path or in mcp.resource, before line 212
RegisterRaises(doc) ==
    /\ reg_errors < MaxRegErrors
    /\ reg_errors' = reg_errors + 1
    /\ last_call' = [doc |-> doc.ID, ret |-> "raised"]
    /\ UNCHANGED registry

\* the early return of line 176
RegisterSkip(doc) ==
    /\ last_call' = [doc |-> doc.ID, ret |-> "False"]
    /\ UNCHANGED <<registry, reg_errors>>

RegisterDocument(doc, index) ==
    IF AlreadyRegistered(doc.ID) THEN RegisterSkip(doc)
    ELSE RegisterNew(doc, index) \/ RegisterRaises(doc)

(***************************************************************************)
(* Direct calls of _register_document: any document, with or without a     *)
(* path index, in any order and with repeats.                              *)
(***************************************************************************)
Names == {<<"a", " ">>, <<"a", " ", "_", "1">>}
\* the id of the folder of the path index, apart from the ids of the documents
FolderId == MaxDocs + 1

CallDocs ==
    {d \in [ID : 1..MaxDocs, VissibleName : Names, is_folder : {FALSE},
            Parent : {0, FolderId}, ModifiedClient : {0, 1}] :
        d.ModifiedClient = d.ID % 2}

FolderIndex ==
    GetItemsById(<<[ID |-> FolderId, VissibleName |-> <<"f">>, is_folder |-> TRUE,
                    Parent |-> 0, ModifiedClient |-> 0]>>)

CallIndexes == {EmptyIndex, FolderIndex}

RegisterCall(doc, index) ==
    /\ pc = "none"
    /\ RegisterDocument(doc, index)
    /\ UNCHANGED <<store, extVars, restVars, loaderVars, taskVars, histVars>>

InitRegistry ==
    /\ registered_docs = {}
    /\ registered_uris = {}
    /\ resources = <<>>
    /\ last_call = [doc |-> 0, ret |-> "none"]
    /\ reg_errors = 0

InitLoaderVars ==
    /\ offset = 0
    /\ consecutive_errors = 0
    /\ items = <<>>
    /\ items_by_id = EmptyIndex
    /\ batch_docs = <<>>
    /\ batch_pos = 1
    /\ limit = 0
    /\ sleep_for = 0
    /\ shutdown_event = FALSE
    /\ cancel_requested = FALSE
    /\ stopper = "idle"
    /\ stopped_at = "none"
    /\ err_run = 0
    /\ fetch_failed = FALSE
    /\ recovered = FALSE
    /\ last_fetch = "none"
    /\ exit_reason = "none"

\* no load_all_documents_sync call was made
InitSync ==
    /\ stopper2 = "idle"
    /\ sync_pc = "idle"
    /\ sync_docs = <<>>
    /\ sync_index = EmptyIndex
    /\ sync_pos = 1
    /\ sync_ret = 0
    /\ sync_calls = 0
    /\ sync_fetches = 0
    /\ sync_failed = FALSE
    /\ sync_new = 0
    /\ prev_clean = FALSE
    /\ prev_ret = 0

\* no tablet is attached
InitUsb ==
    /\ device = <<>>
    /\ usb_documents = <<>>
    /\ usb_failed = FALSE

\* no OCR call was made
InitOcr ==
    /\ ocr_in = [fn |-> "none"]
    /\ ocr_out = [kind |-> "none"]
    /\ samp_pages = <<>>
    /\ samp_pos = 1
    /\ samp_results = <<>>
    /\ has_any_result = FALSE
    /\ samp_ret = [kind |-> "none"]

\* none of the calls and tasks of the later sections was made
InitExt ==
    /\ fn_in = [fn |-> "none"]
    /\ fn_out = [kind |-> "none"]
    /\ read_out = [kind |-> "none"]
    /\ downloads = {}
    /\ usb_call = [kind |-> "none"]
    /\ loader2 = [pc |-> "none"]
    /\ walk = [pc |-> "none"]

InitRegister ==
    /\ InitRegistry
    /\ InitExt
    /\ InitLoaderVars
    /\ InitSync
    /\ InitUsb
    /\ InitOcr
    /\ store = <<>>
    /\ pc = "none"

NextRegister == \E doc \in CallDocs, index \in CallIndexes : RegisterCall(doc, index)

SpecRegister == InitRegister /\ [][NextRegister]_vars

(***************************************************************************)
(* The store.  A listing is the items 1..n in this order; some of them are *)
(* folders, and the items of ChildIds lie in the first folder when there   *)
(* is one (which the listing may show before or after them).               *)
(* Items 1 and 2 share a name, and the name of item 3 is that name with    *)
(* "_1" appended.                                                          *)
(***************************************************************************)
ChildIds == {2, 4}

ItemName(i) ==
    CASE i \in {1, 2} -> <<"a", " ">>
      [] i = 3        -> <<"a", " ", "_", "1">>
      [] OTHER        -> <<"d">> \o NatStr(i)

FirstOf(F) == CHOOSE f \in F : \A g \in F : f <= g

StoreItem(i, F) ==
    [ID |-> i,
     VissibleName |-> IF i \in F THEN <<"f">> ELSE ItemName(i),
     is_folder |-> i \in F,
     Parent |-> IF i \notin F /\ i \in ChildIds /\ F # {} THEN FirstOf(F) ELSE 0,
     ModifiedClient |-> i % 2]

\* where a listing may show a folder: first, after the documents that lie in
\* it, and last
FolderSlots == {1, 5, MaxItems}

FolderSets(n) ==
    {G \in SUBSET (FolderSlots \cap 1..n) : Cardinality(G) <= MaxFolders}

Stores ==
    UNION {{[i \in 1..n |-> StoreItem(i, F)] : F \in FolderSets(n)} :
              n \in 0..MaxItems}

\* client.get_meta_items(limit=n): the first n items of the listing
GetMetaItems(n) == SubSeq(store, 1, Min(n, Len(store)))

\* [item for item in items if not item.is_folder]
Documents(its) == SelectSeq(its, LAMBDA it : ~it.is_folder)

(***************************************************************************)
(* _load_documents_background.  The coroutine runs from one await to the   *)
(* next without interruption; pc names the await it is suspended at        *)
(* ("fetch": run_in_executor, "backoff": the sleep of line 285, "yield":   *)
(* the sleep of line 320), "created" before its first step, "register"     *)
(* inside the for loop of line 301, "done" after a break and "cancelled"   *)
(* after the CancelledError was re-raised.                                 *)
(***************************************************************************)
Suspended == {"created", "fetch", "backoff", "yield"}
Finished == {"done", "cancelled"}

\* documents[offset : offset + batch_size]
BatchDocs(documents, off) ==
    SubSeq(documents, off + 1, Min(off + batch_size, Len(documents)))

\* a loader that stops one error late
StopOnErrorsLate(errors) == errors > max_consecutive_errors

\* line 278
StopOnErrors(errors) == errors >= max_consecutive_errors

\* a delay computed from the counter before its increment
BackoffDelayEarly(errors) == 10 * (2 ^ (errors - 1))

\* the delay of line 285, in tenths of a time unit
BackoffDelay(errors) == 10 * (2 ^ errors)

\* a loader that keeps its error counter over a successful fetch
ErrorsKept(errors) == errors

\* line 274
ErrorsAfterSuccess(errors) == 0

\* an offset that does not advance
NextOffsetStuck(off) == off

\* line 316
NextOffset(off) == off + batch_size

\* a loop that does not look at the shutdown event
LoopTopNoCheck(off) ==
    /\ pc' = "fetch"
    /\ limit' = off + batch_size
    /\ UNCHANGED exit_reason

\* lines 261-271: the shutdown check, then the next fetch is issued
LoopTop(off) ==
    IF shutdown_event
    THEN /\ pc' = "done"
         /\ exit_reason' = "shutdown"
         /\ UNCHANGED limit
    ELSE /\ pc' = "fetch"
         /\ limit' = off + batch_size
         /\ UNCHANGED exit_reason

\* start_background_loader: a fresh event and the task
StartBackgroundLoader ==
    /\ pc = "none"
    /\ pc' = "created"
    /\ shutdown_event' = FALSE
    /\ UNCHANGED <<registry, callVars, store, extVars, restVars, offset, consecutive_errors, items,
                   items_by_id, batch_docs, batch_pos, limit, sleep_for,
                   cancel_requested, stopper, stopped_at, stopper2, histVars>>

\* lines 249-271: the first step of the task
LoaderStart ==
    /\ pc = "created"
    /\ ~cancel_requested
    /\ offset' = 0
    /\ consecutive_errors' = 0
    /\ items_by_id' = EmptyIndex
    /\ LoopTop(0)
    /\ UNCHANGED <<registry, callVars, store, extVars, restVars, items, batch_docs, batch_pos,
                   sleep_for, taskVars, err_run, fetch_failed, recovered,
                   last_fetch>>

\* lines 272-274 and 288-300: the fetch returned
FetchReturns ==
    /\ pc = "fetch"
    /\ ~cancel_requested
    /\ items' = GetMetaItems(limit)
    /\ items_by_id' = GetItemsById(items')
    /\ consecutive_errors' = ErrorsAfterSuccess(consecutive_errors)
    /\ batch_docs' = BatchDocs(Documents(items'), offset)
    /\ batch_pos' = 1
    /\ IF batch_docs' = <<>>
       THEN pc' = "done" /\ exit_reason' = "complete"
       ELSE pc' = "register" /\ UNCHANGED exit_reason
    /\ err_run' = 0
    /\ recovered' = (recovered \/ err_run = 2)
    /\ last_fetch' = IF batch_docs' = <<>> THEN "empty" ELSE "batch"
    /\ UNCHANGED <<registry, callVars, store, extVars, restVars, offset, limit, sleep_for, taskVars,
                   fetch_failed>>

\* lines 275-286: the fetch raised
FetchRaises ==
    /\ pc = "fetch"
    /\ ~cancel_requested
    /\ consecutive_errors' = consecutive_errors + 1
    /\ IF StopOnErrors(consecutive_errors')
       THEN pc' = "done" /\ exit_reason' = "errors" /\ UNCHANGED sleep_for
       ELSE /\ pc' = "backoff"
            /\ sleep_for' = BackoffDelay(consecutive_errors')
            /\ UNCHANGED exit_reason
    /\ err_run' = err_run + 1
    /\ fetch_failed' = TRUE
    /\ last_fetch' = "error"
    /\ UNCHANGED <<registry, callVars, store, extVars, restVars, offset, items, items_by_id,
                   batch_docs, batch_pos, limit, taskVars, recovered>>

\* line 286: the backoff sleep is over, continue
BackoffWakes ==
    /\ pc = "backoff"
    /\ ~cancel_requested
    /\ LoopTop(offset)
    /\ UNCHANGED <<registry, callVars, store, extVars, restVars, offset, consecutive_errors, items,
                   items_by_id, batch_docs, batch_pos, sleep_for, taskVars,
                   err_run, fetch_failed, recovered, last_fetch>>

\* lines 301-308: one document of the batch
RegisterStep ==
    /\ pc = "register"
    /\ batch_pos <= Len(batch_docs)
    /\ ~shutdown_event
    /\ RegisterDocument(batch_docs[batch_pos], items_by_id)
    /\ batch_pos' = batch_pos + 1
    /\ UNCHANGED <<store, extVars, restVars, pc, offset, consecutive_errors, items, items_by_id,
                   batch_docs, limit, sleep_for, taskVars, histVars>>

\* lines 302-303 and 316-320: the for loop ends, by exhaustion or by the
\* break on shutdown
BatchEnds ==
    /\ pc = "register"
    /\ batch_pos > Len(batch_docs) \/ shutdown_event
    /\ offset' = NextOffset(offset)
    /\ pc' = "yield"
    /\ sleep_for' = 1
    /\ UNCHANGED <<registry, callVars, store, extVars, restVars, consecutive_errors, items,
                   items_by_id, batch_docs, batch_pos, limit, taskVars, histVars>>

\* line 320 is over: back to line 261
YieldWakes ==
    /\ pc = "yield"
    /\ ~cancel_requested
    /\ LoopTop(offset)
    /\ UNCHANGED <<registry, callVars, store, extVars, restVars, offset, consecutive_errors, items,
                   items_by_id, batch_docs, batch_pos, sleep_for, taskVars,
                   err_run, fetch_failed, recovered, last_fetch>>

\* lines 322-324: the CancelledError requested by task.cancel() is thrown at
\* the await the loader is suspended at (before its first step, the task
\* ends without running), and re-raised
CancelDelivered ==
    /\ cancel_requested
    /\ pc \in Suspended
    /\ pc' = "cancelled"
    /\ cancel_requested' = FALSE
    /\ exit_reason' = "cancelled"
    /\ UNCHANGED <<registry, callVars, store, extVars, restVars, offset, consecutive_errors, items,
                   items_by_id, batch_docs, batch_pos, limit, sleep_for,
                   shutdown_event, stopper, stopped_at, stopper2, err_run,
                   fetch_failed, recovered, last_fetch>>

(***************************************************************************)
(* stop_background_loader(task), a coroutine of the same event loop: it    *)
(* runs only while the loader is suspended or over.                        *)
(***************************************************************************)
\* a stop that cancels the task and does not await it
StopCallNoAwait ==
    /\ stopper = "idle"
    /\ pc \in Suspended \cup Finished
    /\ shutdown_event' = TRUE
    /\ stopped_at' = pc
    /\ cancel_requested' = (pc \notin Finished)
    /\ stopper' = "returned"
    /\ UNCHANGED <<registry, callVars, store, extVars, restVars, loaderVars, histVars,
                   stopper2>>

\* lines 346-357, up to the await
StopCall ==
    /\ stopper = "idle"
    /\ pc \in Suspended \cup Finished
    /\ shutdown_event' = TRUE
    /\ stopped_at' = pc
    /\ IF pc \notin Finished
       THEN cancel_requested' = TRUE /\ stopper' = "awaiting"
       ELSE stopper' = "returned" /\ UNCHANGED cancel_requested
    /\ UNCHANGED <<registry, callVars, store, extVars, restVars, loaderVars, histVars,
                   stopper2>>

\* lines 357-361: the awaited task is over
StopReturns ==
    /\ stopper = "awaiting"
    /\ pc \in Finished
    /\ stopper' = "returned"
    /\ UNCHANGED <<registry, callVars, store, extVars, restVars, loaderVars, shutdown_event,
                   cancel_requested, stopped_at, stopper2, histVars>>

\* task.shutdown_event.set() by another holder of the task, at any moment
SignalShutdown ==
    /\ pc \notin {"none"} \cup Finished
    /\ ~shutdown_event
    /\ stopper = "idle"
    /\ shutdown_event' = TRUE
    /\ UNCHANGED <<registry, callVars, store, extVars, restVars, loaderVars, cancel_requested,
                   stopper, stopped_at, stopper2, histVars>>

Init ==
    /\ InitRegistry
    /\ InitExt
    /\ InitLoaderVars
    /\ InitSync
    /\ InitUsb
    /\ InitOcr
    /\ store \in Stores
    /\ pc = "none"

Next ==
    \/ StartBackgroundLoader
    \/ LoaderStart
    \/ FetchReturns
    \/ FetchRaises
    \/ BackoffWakes
    \/ RegisterStep
    \/ BatchEnds
    \/ YieldWakes
    \/ CancelDelivered
    \/ StopCall
    \/ StopReturns
    \/ SignalShutdown

Spec == Init /\ [][Next]_vars

(***************************************************************************)
(* load_all_documents_sync.  A plain function: from its call to its return *)
(* nothing else of the event loop runs.                                    *)
(***************************************************************************)
\* length of the store listing of the runs with a sync load
MaxSyncItems == 2
\* calls of load_all_documents_sync in one behaviour
MaxSyncCalls == 2

ServerStores ==
    UNION {{[i \in 1..n |-> StoreItem(i, F)] :
               F \in {G \in SUBSET (1..n) : Cardinality(G) <= MaxFolders}} :
              n \in 0..MaxSyncItems}

\* client.get_meta_items(): the whole listing
GetAllMetaItems == GetMetaItems(Len(store))

\* a sync load that empties the registry before it loads
SyncCallClears ==
    /\ sync_pc # "loop"
    /\ sync_calls < MaxSyncCalls
    /\ pc # "register"
    /\ sync_calls' = sync_calls + 1
    /\ sync_docs' = Documents(GetAllMetaItems)
    /\ sync_index' = GetItemsById(GetAllMetaItems)
    /\ sync_pos' = 1
    /\ sync_pc' = "loop"
    /\ sync_fetches' = 1
    /\ sync_failed' = FALSE
    /\ sync_new' = 0
    /\ prev_clean' = (sync_pc = "returned" /\ ~sync_failed)
    /\ prev_ret' = sync_ret
    /\ registered_docs' = {}
    /\ registered_uris' = {}
    /\ resources' = <<>>
    /\ UNCHANGED <<callVars, store, extVars, loaderVars, taskVars, histVars, sync_ret,
                   usbVars, ocrVars>>

\* lines 227-232: the fetch returned.  The caller is code of the event loop,
\* which runs while the loader is suspended
SyncCall ==
    /\ sync_pc # "loop"
    /\ sync_calls < MaxSyncCalls
    /\ pc # "register"
    /\ sync_calls' = sync_calls + 1
    /\ sync_docs' = Documents(GetAllMetaItems)
    /\ sync_index' = GetItemsById(GetAllMetaItems)
    /\ sync_pos' = 1
    /\ sync_pc' = "loop"
    /\ sync_fetches' = 1
    /\ sync_failed' = FALSE
    /\ sync_new' = 0
    /\ prev_clean' = (sync_pc = "returned" /\ ~sync_failed)
    /\ prev_ret' = sync_ret
    /\ UNCHANGED <<registry, callVars, store, extVars, loaderVars, taskVars, histVars,
                   sync_ret, usbVars, ocrVars>>

\* line 228 raised: the exception leaves load_all_documents_sync
SyncFetchRaises ==
    /\ sync_pc # "loop"
    /\ sync_calls < MaxSyncCalls
    /\ pc # "register"
    /\ sync_calls' = sync_calls + 1
    /\ sync_pc' = "raised"
    /\ sync_fetches' = 1
    /\ sync_failed' = FALSE
    /\ sync_new' = 0
    /\ prev_clean' = FALSE
    /\ prev_ret' = sync_ret
    /\ UNCHANGED <<registry, callVars, store, extVars, loaderVars, taskVars, histVars,
                   sync_docs, sync_index, sync_pos, sync_ret, usbVars, ocrVars>>

\* lines 234-238: one document of the for loop
SyncStep ==
    /\ sync_pc = "loop"
    /\ sync_pos <= Len(sync_docs)
    /\ RegisterDocument(sync_docs[sync_pos], sync_index)
    /\ sync_pos' = sync_pos + 1
    /\ sync_failed' = (sync_failed \/ last_call'.ret = "raised")
    /\ sync_new' = sync_new + (IF last_call'.ret = "True" THEN 1 ELSE 0)
    /\ UNCHANGED <<store, extVars, loaderVars, taskVars, histVars, sync_pc, sync_docs,
                   sync_index, sync_ret, sync_calls, sync_fetches, prev_clean,
                   prev_ret, usbVars, ocrVars>>

\* a sync load that returns the number of documents it registered itself
SyncReturnsNew ==
    /\ sync_pc = "loop"
    /\ sync_pos > Len(sync_docs)
    /\ sync_ret' = sync_new
    /\ sync_pc' = "returned"
    /\ UNCHANGED <<registry, callVars, store, extVars, loaderVars, taskVars, histVars,
                   sync_docs, sync_index, sync_pos, sync_calls, sync_fetches,
                   sync_failed, sync_new, prev_clean, prev_ret, usbVars, ocrVars>>

\* lines 240-241
SyncReturn ==
    /\ sync_pc = "loop"
    /\ sync_pos > Len(sync_docs)
    /\ sync_ret' = Cardinality(registered_docs)
    /\ sync_pc' = "returned"
    /\ UNCHANGED <<registry, callVars, store, extVars, loaderVars, taskVars, histVars,
                   sync_docs, sync_index, sync_pos, sync_calls, sync_fetches,
                   sync_failed, sync_new, prev_clean, prev_ret, usbVars, ocrVars>>

(***************************************************************************)
(* Further calls of stop_background_loader.                                *)
(***************************************************************************)
\* lines 346-347: the handle is None (no task was created)
StopNone ==
    /\ pc = "none"
    /\ stopper = "idle"
    /\ stopped_at' = "absent"
    /\ UNCHANGED <<registry, callVars, store, extVars, restVars, loaderVars, histVars,
                   shutdown_event, cancel_requested, stopper, stopper2>>

\* a second stop that clears the event of the task
StopAgainClears ==
    /\ stopper \in {"awaiting", "returned"}
    /\ stopper2 = "idle"
    /\ pc \in Suspended \cup Finished
    /\ shutdown_event' = FALSE
    /\ IF pc \notin Finished
       THEN cancel_requested' = TRUE /\ stopper2' = "awaiting"
       ELSE stopper2' = "returned" /\ UNCHANGED cancel_requested
    /\ UNCHANGED <<registry, callVars, store, extVars, restVars, loaderVars, histVars,
                   stopper, stopped_at>>

\* lines 346-357 for a second call on the same handle, made while the first
\* awaits the task or after it returned
StopAgain ==
    /\ stopper \in {"awaiting", "returned"}
    /\ stopper2 = "idle"
    /\ pc \in Suspended \cup Finished
    /\ shutdown_event' = TRUE
    /\ IF pc \notin Finished
       THEN cancel_requested' = TRUE /\ stopper2' = "awaiting"
       ELSE stopper2' = "returned" /\ UNCHANGED cancel_requested
    /\ UNCHANGED <<registry, callVars, store, extVars, restVars, loaderVars, histVars,
                   stopper, stopped_at>>

\* lines 357-361 of the second call
StopAgainReturns ==
    /\ stopper2 = "awaiting"
    /\ pc \in Finished
    /\ stopper2' = "returned"
    /\ UNCHANGED <<registry, callVars, store, extVars, restVars, loaderVars, histVars,
                   shutdown_event, cancel_requested, stopper, stopped_at>>

(***************************************************************************)
(* A server that runs the background loader, stops it, and makes sync      *)
(* loads, over a short listing.                                            *)
(***************************************************************************)
InitServer ==
    /\ InitRegistry
    /\ InitExt
    /\ InitLoaderVars
    /\ InitSync
    /\ InitUsb
    /\ InitOcr
    /\ store \in ServerStores
    /\ pc = "none"

\* no sync load is in progress: code of the event loop may run
NoSync == sync_pc # "loop"

NextServer ==
    \/ NoSync /\ StartBackgroundLoader
    \/ NoSync /\ LoaderStart
    \/ NoSync /\ FetchReturns
    \/ NoSync /\ FetchRaises
    \/ NoSync /\ BackoffWakes
    \/ NoSync /\ RegisterStep
    \/ NoSync /\ BatchEnds
    \/ NoSync /\ YieldWakes
    \/ NoSync /\ CancelDelivered
    \/ NoSync /\ StopCall
    \/ NoSync /\ StopReturns
    \/ NoSync /\ SignalShutdown
    \/ NoSync /\ StopNone
    \/ NoSync /\ StopAgain
    \/ NoSync /\ StopAgainReturns
    \/ SyncCall
    \/ SyncFetchRaises
    \/ SyncStep
    \/ SyncReturn

SpecServer == InitServer /\ [][NextServer]_vars

(***************************************************************************)
(* USBWebClient.get_meta_items over a tablet.  The tablet is a function    *)
(* from a folder id (0: the root, "/documents/") to the entries its URL    *)
(* lists; an entry is [ID, VissibleName, is_folder].                       *)
(***************************************************************************)
\* entries of the root listing of the tablet
MaxUsbItems == 3

\* limit=None
NoLimit == 0 - 1

Max(a, b) == IF a > b THEN a ELSE b

UsbEntry(i, F) ==
    [ID |-> i,
     VissibleName |-> IF i \in F THEN <<"f">> ELSE ItemName(i),
     is_folder |-> i \in F]

\* the id of the document that lies in folder f
ChildOf(f) == f + MaxUsbItems

\* a root of n entries, at most MaxFolders of them folders, each folder
\* holding one document
UsbDevice(n, F) ==
    [u \in {0} \cup F |->
        IF u = 0 THEN [i \in 1..n |-> UsbEntry(i, F)]
        ELSE <<[ID |-> ChildOf(u), VissibleName |-> ItemName(ChildOf(u)),
                is_folder |-> FALSE]>>]

UsbDevices ==
    UNION {{UsbDevice(n, F) :
               F \in {G \in SUBSET (1..n) : Cardinality(G) <= MaxFolders}} :
              n \in 0..MaxUsbItems}

\* _parse_document_entry(entry, parent)
ParseDocumentEntry(entry, parent) ==
    [ID |-> entry.ID,
     VissibleName |-> entry.VissibleName,
     is_folder |-> entry.is_folder,
     Parent |-> parent,
     ModifiedClient |-> entry.ID % 2]

\* the entries of one response the for loop of line 209 takes before the
\* limit check of line 219 breaks it
TakenEntries(entries, have, lim) ==
    IF lim = NoLimit THEN Len(entries)
    ELSE Min(Len(entries), Max(1, lim - have))

\* lines 197-227: folders_to_process holds folder ids (the URLs), fails are
\* the URLs whose request raises in this call
RECURSIVE UsbWalk(_, _, _, _, _, _)
UsbWalk(folders_to_process, processed_folders, documents, failed, lim, fails) ==
    IF folders_to_process = <<>>
    THEN [documents |-> documents, failed |-> failed]
    ELSE LET parent_id == Head(folders_to_process)
             rest      == Tail(folders_to_process)
         IN  IF parent_id \in processed_folders
             THEN UsbWalk(rest, processed_folders, documents, failed, lim, fails)
             ELSE IF parent_id \in fails \/ parent_id \notin DOMAIN device
             THEN UsbWalk(rest, processed_folders \cup {parent_id}, documents,
                          TRUE, lim, fails)
             ELSE LET entries == device[parent_id]
                      k       == TakenEntries(entries, Len(documents), lim)
                      docs    == [i \in 1..k |->
                                     ParseDocumentEntry(entries[i], parent_id)]
                      folders == SelectSeq(docs, LAMBDA d : d.is_folder)
                      queue   == rest \o [i \in 1..Len(folders) |-> folders[i].ID]
                      all     == documents \o docs
                  IN  IF lim # NoLimit /\ Len(all) >= lim
                      THEN [documents |-> all, failed |-> failed]
                      ELSE UsbWalk(queue, processed_folders \cup {parent_id},
                                   all, failed, lim, fails)

\* get_meta_items(limit): lines 185-190 answer from the cache, lines 192-233
\* walk the tablet and replace the cache; no exception leaves the call
UsbGetMetaItems(lim, fails) ==
    IF usb_documents # <<>> /\ lim = NoLimit
    THEN [items |-> usb_documents, cache |-> usb_documents, failed |-> FALSE]
    ELSE IF usb_documents # <<>> /\ lim # NoLimit /\ Len(usb_documents) >= lim
    THEN [items |-> SubSeq(usb_documents, 1, lim), cache |-> usb_documents,
          failed |-> FALSE]
    ELSE LET got == UsbWalk(<<0>>, {}, <<>>, FALSE, lim, fails)
         IN  [items |-> got.documents, cache |-> got.documents,
              failed |-> got.failed]

\* the URLs of the tablet
UsbUrls == DOMAIN device

(***************************************************************************)
(* The background loader over the USB client.                              *)
(***************************************************************************)
\* lines 269-300 of the loader with client.get_meta_items of the USB client:
\* the listing returned
UsbFetchReturns ==
    /\ pc = "fetch"
    /\ ~cancel_requested
    /\ \E fails \in SUBSET UsbUrls :
          LET got == UsbGetMetaItems(limit, fails)
          IN  /\ items' = got.items
              /\ usb_documents' = got.cache
              /\ usb_failed' = got.failed
    /\ items_by_id' = GetItemsById(items')
    /\ consecutive_errors' = ErrorsAfterSuccess(consecutive_errors)
    /\ batch_docs' = BatchDocs(Documents(items'), offset)
    /\ batch_pos' = 1
    /\ IF batch_docs' = <<>>
       THEN pc' = "done" /\ exit_reason' = "complete"
       ELSE pc' = "register" /\ UNCHANGED exit_reason
    /\ err_run' = 0
    /\ recovered' = (recovered \/ err_run = 2)
    /\ last_fetch' = IF batch_docs' = <<>> THEN "empty" ELSE "batch"
    /\ UNCHANGED <<registry, callVars, store, extVars, syncVars, ocrVars, device, offset,
                   limit, sleep_for, taskVars, fetch_failed>>

InitUsbLoader ==
    /\ InitRegistry
    /\ InitExt
    /\ InitLoaderVars
    /\ InitSync
    /\ InitOcr
    /\ store = <<>>
    /\ pc = "none"
    /\ device \in UsbDevices
    /\ usb_documents = <<>>
    /\ usb_failed = FALSE

NextUsb ==
    \/ StartBackgroundLoader
    \/ LoaderStart
    \/ UsbFetchReturns
    \/ RegisterStep
    \/ BatchEnds
    \/ YieldWakes
    \/ StopCall
    \/ CancelDelivered
    \/ StopReturns

SpecUsb == InitUsbLoader /\ [][NextUsb]_vars

(***************************************************************************)
(* OCR.  Text is a sequence of one-character strings; Marker stands for    *)
(* the sentinel "[NO TEXT DETECTED]" inside a text.                        *)
(***************************************************************************)
\* pages of one OCR call
MaxPages == 3

Marker == "[NO TEXT DETECTED]"

RECURSIVE LstripSpace(_)
LstripSpace(s) ==
    IF s # <<>> /\ Head(s) = " " THEN LstripSpace(Tail(s)) ELSE s

RECURSIVE RstripSpace(_)
RstripSpace(s) ==
    IF s # <<>> /\ s[Len(s)] = " " THEN RstripSpace(SubSeq(s, 1, Len(s) - 1)) ELSE s

\* text.strip()
Strip(s) == RstripSpace(LstripSpace(s))

\* the sequences over S of length up to n
SeqsUpTo(S, n) == UNION {[1..k -> S] : k \in 0..n}

(***************************************************************************)
(* sampling.py.  A page is the answer the client gives to the              *)
(* create_message request made for it.                                     *)
(***************************************************************************)
SamplingTexts ==
    {<<>>, <<" ">>, <<" ", "x", " ">>, <<"y">>, <<"x", Marker>>}

SamplingAnswers ==
    {[kind |-> k, text |-> <<>>] :
        k \in {"no_session", "raises", "no_result", "no_text_attr"}}
    \cup {[kind |-> "text", text |-> t] : t \in SamplingTexts}

\* an ocr_via_sampling without the except clause of line 124
OcrViaSamplingPropagates(answer) ==
    IF answer.kind = "raises" THEN [kind |-> "raised", text |-> <<>>]
    ELSE IF answer.kind = "text" /\ answer.text # <<>>
            /\ \A i \in DOMAIN answer.text : answer.text[i] # Marker
         THEN [kind |-> "str", text |-> Strip(answer.text)]
         ELSE [kind |-> "None", text |-> <<>>]


\* ocr_via_sampling(ctx, png_data): None, or the stripped text
OcrViaSampling(answer) ==
    IF answer.kind # "text" THEN [kind |-> "None", text |-> <<>>]
    ELSE IF answer.text # <<>>
            /\ \A i \in DOMAIN answer.text : answer.text[i] # Marker
         THEN [kind |-> "str", text |-> Strip(answer.text)]
         ELSE [kind |-> "None", text |-> <<>>]

\* "if text": neither None nor the empty string
Truthy(text) == text.kind = "str" /\ text.text # <<>>

\* a loop that appends nothing for a failed page
SamplingPageSkipsFailed ==
    /\ samp_ret.kind = "none"
    /\ samp_pos <= Len(samp_pages)
    /\ LET text == OcrViaSampling(samp_pages[samp_pos])
       IN  IF Truthy(text)
           THEN /\ samp_results' = Append(samp_results, text.text)
                /\ has_any_result' = TRUE
           ELSE /\ samp_results' = samp_results
                /\ UNCHANGED has_any_result
    /\ samp_pos' = samp_pos + 1
    /\ UNCHANGED <<registry, callVars, store, extVars, loaderVars, taskVars, histVars,
                   syncVars, usbVars, ocr_in, ocr_out, samp_pages, samp_ret>>

\* lines 148-154: one iteration of the for loop, from the request for the
\* page to its answer
SamplingPage ==
    /\ samp_ret.kind = "none"
    /\ samp_pos <= Len(samp_pages)
    /\ LET text == OcrViaSampling(samp_pages[samp_pos])
       IN  IF Truthy(text)
           THEN /\ samp_results' = Append(samp_results, text.text)
                /\ has_any_result' = TRUE
           ELSE /\ samp_results' = Append(samp_results, <<>>)
                /\ UNCHANGED has_any_result
    /\ samp_pos' = samp_pos + 1
    /\ UNCHANGED <<registry, callVars, store, extVars, loaderVars, taskVars, histVars,
                   syncVars, usbVars, ocr_in, ocr_out, samp_pages, samp_ret>>

\* line 156
SamplingReturn ==
    /\ samp_ret.kind = "none"
    /\ samp_pos > Len(samp_pages)
    /\ samp_ret' = IF has_any_result
                   THEN [kind |-> "list", value |-> samp_results]
                   ELSE [kind |-> "None", value |-> <<>>]
    /\ UNCHANGED <<registry, callVars, store, extVars, loaderVars, taskVars, histVars,
                   syncVars, usbVars, ocr_in, ocr_out, samp_pages, samp_pos,
                   samp_results, has_any_result>>

\* ocr_pages_via_sampling called with any list of pages
InitSampling ==
    /\ InitRegistry
    /\ InitExt
    /\ InitLoaderVars
    /\ InitSync
    /\ InitUsb
    /\ store = <<>>
    /\ pc = "none"
    /\ ocr_in = [fn |-> "none"]
    /\ ocr_out = [kind |-> "none"]
    /\ samp_pages \in SeqsUpTo(SamplingAnswers, MaxPages)
    /\ samp_pos = 1
    /\ samp_results = <<>>
    /\ has_any_result = FALSE
    /\ samp_ret = [kind |-> "none"]

NextSampling == SamplingPage \/ SamplingReturn

SpecSampling == InitSampling /\ [][NextSampling]_vars

(***************************************************************************)
(* extract.py: _ocr_google_vision and _ocr_tesseract.  The input is the    *)
(* environment (which modules import, whether the vision client can be     *)
(* built) and, per page, what happens to it:                               *)
(*   rmc_missing, rmc_timeout, rmc_fail: the rmc run is not found, expires *)
(*     or exits non-zero;                                                  *)
(*   conv_missing, conv_timeout: inkscape is not found or expires (pages   *)
(*     that cairosvg converts when it is importable);                      *)
(*   conv_fail: cairosvg.svg2png raises, or inkscape exits non-zero;       *)
(*   vision_raises, vision_error: the vision call raises or answers with   *)
(*     an error (pages tesseract reads);                                   *)
(*   decode_raises: Image.open or image_to_string raises (pages the        *)
(*     vision engine reads);                                               *)
(*   empty, blank, text: the engine returns "", only white space, or the   *)
(*     text of the page.                                                   *)
(***************************************************************************)
PageFates ==
    {"rmc_missing", "rmc_timeout", "rmc_fail", "conv_missing", "conv_timeout",
     "conv_fail", "vision_raises", "vision_error", "decode_raises", "empty",
     "blank", "text"}

OcrEnvs ==
    [vision_import : BOOLEAN, client_ok : BOOLEAN, tess_import : BOOLEAN,
     cairosvg : BOOLEAN]

\* what the engine reads on page i
PageRaw(fate, i) ==
    CASE fate = "empty" -> <<>>
      [] fate = "blank" -> <<" ">>
      [] OTHER          -> <<" ", "p">> \o NatStr(i) \o <<" ">>

\* a rendering in which a missing tool only skips the page
RenderStepMissingSkips(fate, env) ==
    CASE fate = "rmc_missing"  -> "skip"
      [] fate = "rmc_timeout"  -> "skip"
      [] fate = "rmc_fail"     -> "skip"
      [] fate = "conv_missing" -> IF env.cairosvg THEN "rendered" ELSE "skip"
      [] fate = "conv_timeout" -> IF env.cairosvg THEN "rendered" ELSE "skip"
      [] fate = "conv_fail"    -> IF env.cairosvg THEN "raise" ELSE "skip"
      [] OTHER                 -> "rendered"

\* a rendering in which an expired timeout ends the batch
RenderStepTimeoutStops(fate, env) ==
    CASE fate = "rmc_missing"  -> "return_none"
      [] fate = "rmc_timeout"  -> "return_none"
      [] fate = "rmc_fail"     -> "skip"
      [] fate = "conv_missing" -> IF env.cairosvg THEN "rendered" ELSE "return_none"
      [] fate = "conv_timeout" -> IF env.cairosvg THEN "rendered" ELSE "return_none"
      [] fate = "conv_fail"    -> IF env.cairosvg THEN "raise" ELSE "skip"
      [] OTHER                 -> "rendered"

\* lines 199-226 (and 290-317): rmc, then cairosvg or, when it does not
\* import, inkscape; with the except clauses of lines 243-247 (346-350)
RenderStep(fate, env) ==
    CASE fate = "rmc_missing"  -> "return_none"
      [] fate = "rmc_timeout"  -> "skip"
      [] fate = "rmc_fail"     -> "skip"
      [] fate = "conv_missing" -> IF env.cairosvg THEN "rendered" ELSE "return_none"
      [] fate = "conv_timeout" -> IF env.cairosvg THEN "rendered" ELSE "skip"
      [] fate = "conv_fail"    -> IF env.cairosvg THEN "raise" ELSE "skip"
      [] OTHER                 -> "rendered"

\* lines 228-241
GoogleEngine(fate, i) ==
    CASE fate = "vision_raises" -> [step |-> "raise", text |-> <<>>]
      [] fate = "vision_error"  -> [step |-> "skip", text |-> <<>>]
      [] OTHER ->
           IF PageRaw(fate, i) # <<>>
           THEN [step |-> "append", text |-> Strip(PageRaw(fate, i))]
           ELSE [step |-> "skip", text |-> <<>>]

\* lines 319-344
TesseractEngine(fate, i) ==
    CASE fate = "decode_raises" -> [step |-> "raise", text |-> <<>>]
      [] OTHER ->
           IF Strip(PageRaw(fate, i)) # <<>>
           THEN [step |-> "append", text |-> Strip(PageRaw(fate, i))]
           ELSE [step |-> "skip", text |-> <<>>]

GooglePage(fate, env, i) ==
    IF RenderStep(fate, env) = "rendered" THEN GoogleEngine(fate, i)
    ELSE [step |-> RenderStep(fate, env), text |-> <<>>]

TesseractPage(fate, env, i) ==
    IF RenderStep(fate, env) = "rendered" THEN TesseractEngine(fate, i)
    ELSE [step |-> RenderStep(fate, env), text |-> <<>>]

\* lines 280-357: the for loop from page i and the return; trace lists the
\* pages each backend took up, in order
RECURSIVE TesseractLoop(_, _, _, _)
TesseractLoop(inp, i, ocr_results, trace) ==
    IF i > Len(inp.pages)
    THEN [kind |-> IF ocr_results # <<>> THEN "list" ELSE "None",
          value |-> ocr_results, trace |-> trace]
    ELSE LET st == TesseractPage(inp.pages[i], inp.env, i)
             tr == Append(trace, [backend |-> "tesseract", page |-> i])
         IN  CASE st.step = "return_none" ->
                    [kind |-> "None", value |-> <<>>, trace |-> tr]
               [] st.step = "raise" ->
                    [kind |-> "raised", value |-> <<>>, trace |-> tr]
               [] st.step = "append" ->
                    TesseractLoop(inp, i + 1, Append(ocr_results, st.text), tr)
               [] OTHER ->
                    TesseractLoop(inp, i + 1, ocr_results, tr)

\* _ocr_tesseract(rm_files), entered with the pages already taken up
OcrTesseract(inp, trace) ==
    IF ~inp.env.tess_import
    THEN [kind |-> "None", value |-> <<>>, trace |-> trace]
    ELSE TesseractLoop(inp, 1, <<>>, trace)

\* lines 189-254
RECURSIVE GoogleLoop(_, _, _, _)
GoogleLoop(inp, i, ocr_results, trace) ==
    IF i > Len(inp.pages)
    THEN [kind |-> IF ocr_results # <<>> THEN "list" ELSE "None",
          value |-> ocr_results, trace |-> trace]
    ELSE LET st == GooglePage(inp.pages[i], inp.env, i)
             tr == Append(trace, [backend |-> "google", page |-> i])
         IN  CASE st.step = "return_none" ->
                    [kind |-> "None", value |-> <<>>, trace |-> tr]
               [] st.step = "raise" ->
                    [kind |-> "raised", value |-> <<>>, trace |-> tr]
               [] st.step = "append" ->
                    GoogleLoop(inp, i + 1, Append(ocr_results, st.text), tr)
               [] OTHER ->
                    GoogleLoop(inp, i + 1, ocr_results, tr)

\* a fallback that goes on from the page that raised
OcrGoogleVisionResumes(inp) ==
    IF ~inp.env.vision_import \/ ~inp.env.client_ok
    THEN OcrTesseract(inp, <<>>)
    ELSE LET g == GoogleLoop(inp, 1, <<>>, <<>>)
         IN  IF g.kind = "raised"
             THEN IF ~inp.env.tess_import
                  THEN [kind |-> "None", value |-> <<>>, trace |-> g.trace]
                  ELSE TesseractLoop(inp, Len(g.trace), <<>>, g.trace)
             ELSE g

\* _ocr_google_vision(rm_files): lines 256-261 hand the batch to
\* _ocr_tesseract when the import fails or anything else raises
OcrGoogleVision(inp) ==
    IF ~inp.env.vision_import \/ ~inp.env.client_ok
    THEN OcrTesseract(inp, <<>>)
    ELSE LET g == GoogleLoop(inp, 1, <<>>, <<>>)
         IN  IF g.kind = "raised" THEN OcrTesseract(inp, g.trace) ELSE g

CallGoogleVision ==
    /\ ocr_in.fn = "none"
    /\ ocr_in' = [ocr_in EXCEPT !.fn = "google"]
    /\ ocr_out' = OcrGoogleVision(ocr_in)
    /\ UNCHANGED <<registry, callVars, store, extVars, loaderVars, taskVars, histVars,
                   syncVars, usbVars, samp_pages, samp_pos, samp_results,
                   has_any_result, samp_ret>>

CallTesseract ==
    /\ ocr_in.fn = "none"
    /\ ocr_in' = [ocr_in EXCEPT !.fn = "tesseract"]
    /\ ocr_out' = OcrTesseract(ocr_in, <<>>)
    /\ UNCHANGED <<registry, callVars, store, extVars, loaderVars, taskVars, histVars,
                   syncVars, usbVars, samp_pages, samp_pos, samp_results,
                   has_any_result, samp_ret>>

\* a batch call on any pages in any environment
InitOcrBatch ==
    /\ InitRegistry
    /\ InitExt
    /\ InitLoaderVars
    /\ InitSync
    /\ InitUsb
    /\ store = <<>>
    /\ pc = "none"
    /\ ocr_in \in [fn : {"none"}, env : OcrEnvs, pages : SeqsUpTo(PageFates, MaxPages)]
    /\ ocr_out = [kind |-> "none"]
    /\ samp_pages = <<>>
    /\ samp_pos = 1
    /\ samp_results = <<>>
    /\ has_any_result = FALSE
    /\ samp_ret = [kind |-> "none"]

NextOcr == CallGoogleVision \/ CallTesseract

SpecOcr == InitOcrBatch /\ [][NextOcr]_vars

(***************************************************************************)
(* Claims about _register_document, checked under SpecRegister.            *)
(***************************************************************************)
ResourceBase(j) == BaseUri(resources[j].description.path)

\* C1: after any sequence of _register_document calls the registered URIs are
\* pairwise distinct and every item id is registered at most once: no two
\* exposed resources share a URI or a document, and the URI set and the id set
\* are exactly the URIs and the ids of the exposed resources.
C1_UrisAndIdsDistinct ==
    /\ \A i, j \in DOMAIN resources :
          i # j => /\ resources[i].uri # resources[j].uri
                   /\ resources[i].doc # resources[j].doc
    /\ registered_uris = {resources[i].uri : i \in DOMAIN resources}
    /\ registered_docs = {resources[i].doc : i \in DOMAIN resources}

\* three documents registered, two of them on colliding paths, and the last
\* call was a repeat
C1_Witness ==
    /\ Len(resources) = 3
    /\ last_call.ret = "False"
    /\ \E i, j \in DOMAIN resources : i # j /\ ResourceBase(i) = ResourceBase(j)

\* C2: a _register_document call for an id that is already registered returns
\* False and leaves the id set, the URI set and the exposed resources as they
\* were.
\* (last_call' names the document of the call a step makes; a step that makes
\* no call leaves last_call and the registry alone.)
C2_RepeatIsNoOp ==
    [][last_call'.doc \in registered_docs
          => /\ UNCHANGED registry
             /\ (last_call'.ret = "False" \/ UNCHANGED last_call)]_vars

\* a repeated call returned False with documents registered
C2_Witness ==
    /\ last_call.ret = "False"
    /\ last_call.doc \in registered_docs
    /\ Len(resources) >= 2

\* the resources registered before the j-th whose path gives the same candidate
SameBaseBefore(j) == {i \in 1..(j - 1) : ResourceBase(i) = ResourceBase(j)}

\* a resource of another candidate holds the candidate of the j-th or one of
\* the decorations up to its rank
OthersOccupy(j) ==
    LET path == resources[j].description.path
        k    == Cardinality(SameBaseBefore(j))
    IN  \E i \in DOMAIN resources :
           /\ ResourceBase(i) # ResourceBase(j)
           /\ resources[i].uri \in
                  {BaseUri(path)} \cup {CounterUri(path, m) : m \in 1..k}

\* C3: of the documents whose paths give the same candidate URI, the first
\* registered holds the candidate itself and the one registered after k others
\* holds the candidate with _k before .txt, unless a resource of another
\* candidate occupies one of those URIs.
C3_CountersInCallOrder ==
    \A j \in DOMAIN resources :
        ~OthersOccupy(j) =>
            LET path == resources[j].description.path
                k    == Cardinality(SameBaseBefore(j))
            IN  resources[j].uri =
                    IF k = 0 THEN BaseUri(path) ELSE CounterUri(path, k)

\* three documents of one candidate hold the candidate, _1 and _2
C3_Witness ==
    /\ Len(resources) = 3
    /\ \A j \in DOMAIN resources : ResourceBase(j) = ResourceBase(1)
    /\ resources[1].uri = BaseUri(resources[1].description.path)
    /\ resources[2].uri = CounterUri(resources[1].description.path, 1)
    /\ resources[3].uri = CounterUri(resources[1].description.path, 2)

(***************************************************************************)
(* Claims about the background loader and its stop, checked under Spec.    *)
(***************************************************************************)
\* C4: in every reachable state (after a registration that raised, after a
\* shutdown in the middle of a batch, after the loader stopped on errors) an
\* id is in the id set exactly when one resource, whose URI is in the URI set,
\* was exposed for it, and the two sets have the same size.
C4_IdAndUriSetsAgree ==
    /\ Cardinality(registered_docs) = Cardinality(registered_uris)
    /\ Cardinality(registered_docs) = Len(resources)
    /\ \A id \in registered_docs :
          \E i \in DOMAIN resources :
              /\ resources[i].doc = id
              /\ resources[i].uri \in registered_uris
              /\ \A j \in DOMAIN resources : resources[j].doc = id => j = i
    /\ \A i \in DOMAIN resources : resources[i].doc \in registered_docs
    /\ \A u \in registered_uris : \E i \in DOMAIN resources : resources[i].uri = u

\* a registration raised, then the shutdown was signalled in the middle of the
\* batch, with documents registered
C4_Witness ==
    /\ reg_errors = 1
    /\ shutdown_event
    /\ pc = "done"
    /\ 1 < batch_pos /\ batch_pos <= Len(batch_docs)
    /\ Len(resources) >= 2

\* steps the loader still has to take before it is over, once the shutdown is
\* signalled
StepsToExit(p) ==
    CASE p = "fetch"    -> 3
      [] p = "register" -> 2
      [] p \in {"created", "backoff", "yield"} -> 1
      [] OTHER          -> 0

\* C5: once the shutdown event is set the loader registers nothing and issues
\* no fetch (it never comes to await a fetch again); a fetch in flight is not
\* retried and none of its items is registered, and every step the loader
\* takes brings it closer to its exit (at most three steps from a fetch in
\* flight).
C5_NoWorkAfterShutdown ==
    [][shutdown_event =>
          /\ UNCHANGED registry
          /\ pc' # pc => (pc' # "fetch" /\ StepsToExit(pc') < StepsToExit(pc))]_vars

\* the event was set during the first fetch, which returned a batch: nothing
\* was registered and the loader is over
C5_Witness ==
    /\ exit_reason = "shutdown"
    /\ stopper = "idle"
    /\ last_fetch = "batch"
    /\ batch_docs # <<>>
    /\ offset = batch_size
    /\ resources = <<>>

\* C6: a successful fetch after 2 consecutive failed ones takes the loader to
\* the registration of the fetched batch (or to its normal end when the batch
\* is empty); with 3 consecutive failed fetches the loader is over, and a
\* loader that is over stays so (it never awaits a fetch again), so a fourth
\* fetch never follows.
C6_BoundedRetry ==
    /\ [](err_run <= 3)
    /\ [](err_run = 3 => (pc = "done" /\ exit_reason = "errors"))
    /\ [][(err_run = 2 /\ err_run' = 0) =>
             \/ pc' = "register" /\ batch_docs' # <<>>
             \/ pc' = "done" /\ exit_reason' = "complete"]_vars
    /\ [][pc = "done" => pc' = "done"]_vars

\* two failed fetches, a successful one whose batch was registered, then three
\* failed ones
C6_Witness ==
    /\ exit_reason = "errors"
    /\ recovered
    /\ err_run = 3
    /\ resources # <<>>

\* C7: the k-th consecutive failed fetch, k < 3, suspends the loader for 2^k
\* time units (sleep_for counts tenths) at the same offset, and the loader, if
\* no shutdown was signalled in between, then issues the fetch of the same
\* offset and limit again; the offset changes only at the end of a batch of a
\* successful fetch, and then by batch_size.
C7_BackoffAndOffset ==
    /\ [][(err_run' = err_run + 1 /\ err_run' < 3) =>
             /\ pc' = "backoff"
             /\ sleep_for' = 10 * (2 ^ err_run')
             /\ offset' = offset]_vars
    /\ [][(pc = "backoff" /\ pc' # pc /\ ~shutdown_event /\ ~cancel_requested) =>
             /\ pc' = "fetch"
             /\ limit' = limit
             /\ offset' = offset]_vars
    /\ [][offset' # offset =>
             /\ offset' = offset + 10
             /\ pc = "register"
             /\ last_fetch = "batch"]_vars

\* the fetch of the second batch is in flight for the third time
C7_Witness ==
    /\ pc = "fetch"
    /\ last_fetch = "error"
    /\ err_run = 2
    /\ offset = 10
    /\ limit = 20

\* C8: the loader ends on errors only with 3 failed fetches and no successful
\* one between them: its counter is the number of failed fetches since the
\* last successful one.
C8_OnlyConsecutiveErrorsStop ==
    /\ consecutive_errors = err_run
    /\ exit_reason = "errors" => err_run = 3
    /\ (pc = "done" /\ last_fetch = "error" /\ ~shutdown_event) => err_run = 3

\* two failed fetches before a successful one, two more failed ones after
\* it, and the loader goes on
C8_Witness ==
    /\ recovered
    /\ err_run = 2
    /\ pc = "fetch"
    /\ resources # <<>>

\* C9: when the loader ends on the empty batch, with no failed fetch, no
\* failed registration and no shutdown, every document of the store is
\* registered.
C9_AllRegisteredOnEmptyBatch ==
    (/\ exit_reason = "complete"
     /\ ~fetch_failed
     /\ reg_errors = 0
     /\ ~shutdown_event)
        => \A i \in DOMAIN store :
              ~store[i].is_folder => store[i].ID \in registered_docs

\* C10: when stop_background_loader has returned, the task is over, after
\* re-raising the cancellation if it was stopped before its end, and from then
\* on the loader changes neither the registry nor its position (it issues no
\* fetch).
C10_StoppedMeansOver ==
    /\ [](stopper = "returned" =>
             /\ pc \in Finished
             /\ ~cancel_requested
             /\ stopped_at \in Suspended => pc = "cancelled")
    /\ [][stopper = "returned" => UNCHANGED <<registry, pc>>]_vars

\* the loader was stopped in a backoff sleep with documents registered
C10_Witness ==
    /\ stopper = "returned"
    /\ stopped_at = "backoff"
    /\ pc = "cancelled"
    /\ resources # <<>>

(***************************************************************************)
(* Claims about repeated stops, the sync load and the containment of       *)
(* registration errors, checked under SpecServer.                          *)
(***************************************************************************)
\* C11: a stop_background_loader call on an absent handle, or on a task that is
\* over, returns in the same step and changes neither the registry nor the
\* loader nor a pending cancellation; a second call on the same handle changes
\* nothing but its own position (the event is set and the cancellation is
\* requested already), and it returns exactly when the task is over.
C11_StopIdempotent ==
    /\ [][(stopped_at # "absent" /\ stopped_at' = "absent") =>
             UNCHANGED <<registry, loaderVars, shutdown_event, cancel_requested,
                         stopper, stopper2>>]_vars
    /\ [][(stopper = "idle" /\ stopper' # "idle" /\ pc \in Finished) =>
             /\ stopper' = "returned"
             /\ UNCHANGED <<registry, loaderVars, cancel_requested>>]_vars
    /\ [][stopper2' # stopper2 =>
             /\ UNCHANGED <<registry, loaderVars, shutdown_event, cancel_requested,
                            stopper, stopped_at>>
             /\ pc \in Finished => stopper2' = "returned"]_vars
    /\ [](stopper2 = "returned" => (pc \in Finished /\ ~cancel_requested))

\* the loader ended on errors with documents registered and was then stopped
\* twice
C11_Witness ==
    /\ stopper = "returned"
    /\ stopper2 = "returned"
    /\ stopped_at = "done"
    /\ exit_reason = "errors"
    /\ resources # <<>>

\* C12: when load_all_documents_sync returns it has made one fetch, its for
\* loop has gone through every non-folder item of the listing, and it returns
\* the size of the id set; if no registration raised in the call every
\* non-folder item of the listing is registered, and a call that follows a call
\* without a failed registration registers nothing and returns the same count.
C12_SyncLoadsAll ==
    [][(sync_pc = "loop" /\ sync_pc' = "returned") =>
          /\ sync_fetches' = 1
          /\ sync_docs = Documents(store)
          /\ sync_pos = Len(sync_docs) + 1
          /\ sync_ret' = Cardinality(registered_docs')
          /\ ~sync_failed =>
                \A i \in DOMAIN store :
                    ~store[i].is_folder => store[i].ID \in registered_docs'
          /\ prev_clean => (sync_new = 0 /\ sync_ret' = prev_ret)]_vars

\* the second of two sync loads returned: it registered nothing and returns
\* the count of the first
C12_Witness ==
    /\ sync_pc = "returned"
    /\ sync_calls = 2
    /\ prev_clean
    /\ sync_new = 0
    /\ sync_ret = 2
    /\ prev_ret = 2
    /\ pc = "none"

\* C13: a registration that raises, in the sync load or in a background batch,
\* leaves the registry as it was (the failing id is in neither set) and the for
\* loop goes to the next item; the loop is left only after its last item
\* (or, in the loader, on shutdown), and the loader then moves its offset by
\* batch_size and, after its sleep, issues the fetch of the next batch.
C13_RegistrationErrorContained ==
    /\ [][reg_errors' # reg_errors =>
             /\ UNCHANGED registry
             /\ last_call'.ret = "raised"
             /\ last_call'.doc \notin registered_docs'
             /\ \/ /\ sync_pc = "loop" /\ sync_pc' = "loop"
                   /\ last_call'.doc = sync_docs[sync_pos].ID
                   /\ sync_pos' = sync_pos + 1
                \/ /\ sync_pc # "loop"
                   /\ pc = "register" /\ pc' = "register"
                   /\ last_call'.doc = batch_docs[batch_pos].ID
                   /\ batch_pos' = batch_pos + 1]_vars
    /\ [][(sync_pc = "loop" /\ sync_pc' # "loop") =>
             (sync_pos > Len(sync_docs) /\ sync_pc' = "returned")]_vars
    /\ [][(pc = "register" /\ pc' # "register") =>
             /\ batch_pos > Len(batch_docs) \/ shutdown_event
             /\ pc' = "yield"
             /\ offset' = offset + batch_size]_vars
    /\ [][(pc = "yield" /\ pc' # pc /\ ~shutdown_event /\ ~cancel_requested) =>
             (pc' = "fetch" /\ limit' = offset + batch_size)]_vars

\* the first registration of a background batch of two raised, the second
\* document was registered and the fetch of the next batch is in flight
C13_Witness ==
    /\ reg_errors = 1
    /\ sync_calls = 0
    /\ Len(batch_docs) = 2
    /\ batch_docs[1].ID \notin registered_docs
    /\ batch_docs[2].ID \in registered_docs
    /\ pc = "fetch"
    /\ limit = 2 * batch_size

\* C14: no step removes an id or a URI or changes a resource already exposed:
\* the id set and the URI set only grow and the exposed resources are only
\* appended to.
C14_RegistryOnlyGrows ==
    [][/\ registered_docs \subseteq registered_docs'
       /\ registered_uris \subseteq registered_uris'
       /\ Len(resources) <= Len(resources')
       /\ \A i \in DOMAIN resources : resources'[i] = resources[i]]_vars

\* with a document registered, the loader failed to fetch, backed off, stopped
\* on three errors and was stopped, and two sync loads were made
C14_Witness ==
    /\ exit_reason = "errors"
    /\ stopper = "returned"
    /\ sync_calls = 2
    /\ sync_pc = "returned"
    /\ Len(resources) = 2

(***************************************************************************)
(* Claim about the loader over the USB client, checked under SpecUsb.      *)
(***************************************************************************)
\* the documents of the tablet
UsbDocIds ==
    UNION {{device[u][i].ID : i \in DOMAIN device[u]} : u \in DOMAIN device}
        \ DOMAIN device

\* C15: when a request of the last listing of a tablet that holds documents
\* failed, the loader counted a fetch error (and retries at the same offset);
\* it did not take the listing for the empty one and end as complete.
C15_TransportFailureIsFetchError ==
    (usb_failed /\ UsbDocIds # {}) =>
        /\ last_fetch = "error"
        /\ consecutive_errors >= 1
        /\ exit_reason # "complete"

(***************************************************************************)
(* Claim about ocr_pages_via_sampling, checked under SpecSampling.         *)
(***************************************************************************)
\* the answer for a page carries text: not the sentinel, not only white space
SamplingYields(answer) ==
    /\ answer.kind = "text"
    /\ \A i \in DOMAIN answer.text : answer.text[i] \notin {Marker}
    /\ \E i \in DOMAIN answer.text : answer.text[i] # " "

SamplingText(answer) ==
    IF SamplingYields(answer) THEN Strip(answer.text) ELSE <<>>

\* C16: the pages are taken one at a time in input order (after k answers the
\* results are those of the first k pages); a returned list has the length of
\* the input and holds at position i the text of page i, or the empty string
\* if page i gave none; the call returns None exactly when no page gave text.
C16_SamplingPagesAligned ==
    /\ Len(samp_results) = samp_pos - 1
    /\ \A i \in DOMAIN samp_results : samp_results[i] = SamplingText(samp_pages[i])
    /\ samp_ret.kind # "none" => samp_pos = Len(samp_pages) + 1
    /\ samp_ret.kind = "list" =>
          samp_ret.value = [i \in 1..Len(samp_pages) |-> SamplingText(samp_pages[i])]
    /\ samp_ret.kind = "None" =>
          \A i \in DOMAIN samp_pages : ~SamplingYields(samp_pages[i])
    /\ samp_ret.kind = "list" =>
          \E i \in DOMAIN samp_pages : SamplingYields(samp_pages[i])

\* three pages of which the second failed: a list of three with the empty
\* string in the middle
C16_Witness ==
    /\ samp_ret.kind = "list"
    /\ Len(samp_pages) = 3
    /\ samp_pages[2].kind = "raises"
    /\ samp_ret.value = <<<<"x">>, <<>>, <<"y">>>>

(***************************************************************************)
(* Claims about _ocr_google_vision and _ocr_tesseract, checked under       *)
(* SpecOcr.                                                                *)
(***************************************************************************)
\* the page comes out of rmc and of the conversion as an image
Rendered(fate, env) ==
    /\ fate \notin {"rmc_missing", "rmc_timeout", "rmc_fail"}
    /\ env.cairosvg => fate # "conv_fail"
    /\ ~env.cairosvg => fate \notin {"conv_missing", "conv_timeout", "conv_fail"}

\* the text the backend reads on page i, empty when it reads none
PageText(backend, fate, env, i) ==
    IF /\ Rendered(fate, env)
       /\ fate \notin {"empty", "blank"}
       /\ backend = "google" => fate \notin {"vision_raises", "vision_error"}
       /\ backend = "tesseract" => fate # "decode_raises"
    THEN <<"p">> \o NatStr(i)
    ELSE <<>>

\* a required external tool (rmc, or inkscape when it is the converter) is
\* not installed
MissingTool(fate, env) ==
    fate = "rmc_missing" \/ (fate = "conv_missing" /\ ~env.cairosvg)

\* the timeout of the rmc or of the inkscape run expired
TimedOut(fate, env) ==
    fate = "rmc_timeout" \/ (fate = "conv_timeout" /\ ~env.cairosvg)

\* an exception other than those of a missing tool or a timeout
PageRaises(backend, fate, env) ==
    \/ fate = "conv_fail" /\ env.cairosvg
    \/ fate = "vision_raises" /\ backend = "google"
    \/ fate = "decode_raises" /\ backend = "tesseract"

\* the modules of the called backend import and its client can be built
BackendReady ==
    \/ ocr_in.fn = "google" /\ ocr_in.env.vision_import /\ ocr_in.env.client_ok
    \/ ocr_in.fn = "tesseract" /\ ocr_in.env.tess_import

\* every page was taken up once, in order, by the called backend
AllPagesBySameBackend ==
    ocr_out.trace = [i \in 1..Len(ocr_in.pages) |->
                        [backend |-> ocr_in.fn, page |-> i]]

\* C17: when a batch call returns a list in which some page has text, the
\* list has one element per input page, and element i is the text of page i,
\* or empty if page i gave none.
C17_ResultAlignedWithPages ==
    (/\ ocr_in.fn # "none"
     /\ BackendReady
     /\ ocr_out.kind = "list"
     /\ \E i \in DOMAIN ocr_out.value : ocr_out.value[i] # <<>>)
        => ocr_out.value =
               [i \in 1..Len(ocr_in.pages) |->
                   PageText(ocr_in.fn, ocr_in.pages[i], ocr_in.env, i)]

\* C18: when no page of the batch lacks an external tool, the batch call does
\* not raise, every page is taken up in order by the called backend, and the
\* text of every page that has some is in the result.
C18_PageFailureNeverAborts ==
    (/\ ocr_in.fn # "none"
     /\ BackendReady
     /\ \A i \in DOMAIN ocr_in.pages : ~MissingTool(ocr_in.pages[i], ocr_in.env))
        => /\ ocr_out.kind # "raised"
           /\ AllPagesBySameBackend
           /\ \A i \in DOMAIN ocr_in.pages :
                 LET text == PageText(ocr_in.fn, ocr_in.pages[i], ocr_in.env, i)
                 IN  text # <<>> =>
                        \E k \in DOMAIN ocr_out.value : ocr_out.value[k] = text

\* C19: a page on which a backend finds a required external tool missing is
\* the last page any backend takes up, and the batch result is None (nothing
\* of the earlier pages is returned).
C19_MissingToolStopsBatch ==
    ocr_in.fn # "none" =>
        \A j \in DOMAIN ocr_out.trace :
            MissingTool(ocr_in.pages[ocr_out.trace[j].page], ocr_in.env) =>
                /\ j = Len(ocr_out.trace)
                /\ ocr_out.kind = "None"
                /\ ocr_out.value = <<>>

\* the vision backend read the first page and found the tool missing on the
\* second of three
C19_Witness ==
    /\ ocr_in.fn = "google"
    /\ BackendReady
    /\ ocr_in.pages = <<"text", "rmc_missing", "text">>
    /\ ocr_out.kind = "None"
    /\ Len(ocr_out.trace) = 2

\* C20: a page on which the timeout of a subprocess expired gives no text and
\* the next page is taken up by the same backend; and a batch in which no
\* tool is missing and nothing else raises returns None only if no page has
\* text.
C20_TimeoutIsPerPage ==
    ocr_in.fn # "none" =>
        /\ \A j \in DOMAIN ocr_out.trace :
              LET t == ocr_out.trace[j]
              IN  TimedOut(ocr_in.pages[t.page], ocr_in.env) =>
                     /\ \A k \in DOMAIN ocr_out.value :
                           ocr_out.value[k] # <<"p">> \o NatStr(t.page)
                     /\ t.page < Len(ocr_in.pages) =>
                           /\ j + 1 \in DOMAIN ocr_out.trace
                           /\ ocr_out.trace[j + 1] =
                                  [backend |-> t.backend, page |-> t.page + 1]
        /\ (/\ BackendReady
            /\ ocr_out.kind = "None"
            /\ \A i \in DOMAIN ocr_in.pages :
                  /\ ~MissingTool(ocr_in.pages[i], ocr_in.env)
                  /\ ~PageRaises(ocr_in.fn, ocr_in.pages[i], ocr_in.env))
              => \A i \in DOMAIN ocr_in.pages :
                    PageText(ocr_in.fn, ocr_in.pages[i], ocr_in.env, i) = <<>>

\* rmc expired on the first page and inkscape on the third: the local backend
\* returns the text of the second
C20_Witness ==
    /\ ocr_in.fn = "tesseract"
    /\ ~ocr_in.env.cairosvg
    /\ ocr_in.pages = <<"rmc_timeout", "text", "conv_timeout">>
    /\ ocr_out.kind = "list"
    /\ ocr_out.value = <<<<"p", "2">>>>
    /\ Len(ocr_out.trace) = 3

(***************************************************************************)
(* Backend selection: extract_handwriting_ocr (extract.py 144-169),        *)
(* get_ocr_backend and should_use_sampling_ocr (sampling.py 159-200), and  *)
(* single calls of ocr_via_sampling.  The value of REMARKABLE_OCR_BACKEND  *)
(* is text, so that str.lower() is computed.                               *)
(***************************************************************************)
AutoName == <<"a", "u", "t", "o">>
GoogleName == <<"g", "o", "o", "g", "l", "e">>
TesseractName == <<"t", "e", "s", "s", "e", "r", "a", "c", "t">>
SamplingName == <<"s", "a", "m", "p", "l", "i", "n", "g">>

LowerChar(c) ==
    CASE c = "A" -> "a"
      [] c = "G" -> "g"
      [] c = "I" -> "i"
      [] c = "L" -> "l"
      [] c = "M" -> "m"
      [] c = "N" -> "n"
      [] c = "O" -> "o"
      [] c = "P" -> "p"
      [] c = "S" -> "s"
      [] c = "T" -> "t"
      [] c = "U" -> "u"
      [] OTHER   -> c

\* str.lower()
Lower(s) == [i \in DOMAIN s |-> LowerChar(s[i])]

\* values REMARKABLE_OCR_BACKEND is set to
BackendValues ==
    {AutoName, <<"A", "u", "t", "o">>, <<"A", "U", "T", "O">>,
     GoogleName, <<"G", "o", "o", "g", "l", "e">>, <<"g", "o", "o", "g", "l", "e", " ">>,
     TesseractName, <<"T", "e", "s", "s", "e", "r", "a", "c", "t">>,
     SamplingName, <<"S", "a", "m", "p", "l", "i", "n", "g">>,
     <<"S", "A", "M", "P", "L", "I", "N", "G">>,
     <<"o", "c", "r">>, <<"n", "o", "n", "e">>, <<>>}

\* os.environ: the variable is unset, or set to one of the values
Environs ==
    {[set |-> FALSE, value |-> <<>>]} \cup {[set |-> TRUE, value |-> v] : v \in BackendValues}

\* what is installed of the google.cloud.vision client library: nothing of
\* the google.cloud package, the package without its vision module, or all
VisionLibraries == {"no_package", "no_module", "installed"}

\* importlib.util.find_spec("google.cloud.vision"): importing the parent
\* package google.cloud raises ModuleNotFoundError when it is not installed
FindSpec(lib) ==
    CASE lib = "no_package" -> "raises"
      [] lib = "no_module"  -> "None"
      [] lib = "installed"  -> "spec"

\* os.environ.get("REMARKABLE_OCR_BACKEND", "auto").lower()
GetOcrBackend(env) == Lower(IF env.set THEN env.value ELSE AutoName)

\* extract_handwriting_ocr(rm_files) up to the call of the backend function:
\* which function it calls, and whether find_spec was called
ExtractHandwritingOcr(env, lib) ==
    LET backend == GetOcrBackend(env)
    IN  IF backend = AutoName
        THEN IF FindSpec(lib) = "raises"
             THEN [kind |-> "raised", probed |-> TRUE, fn |-> "none"]
             ELSE [kind |-> "called", probed |-> TRUE,
                   fn |-> IF FindSpec(lib) # "None" THEN "_ocr_google_vision"
                          ELSE "_ocr_tesseract"]
        ELSE [kind |-> "called", probed |-> FALSE,
              fn |-> IF backend = GoogleName THEN "_ocr_google_vision"
                     ELSE "_ocr_tesseract"]

\* client_supports_sampling(ctx): whether the client declared the sampling
\* capability
ClientSupportsSampling(ctx) == ctx.sampling

Contexts == [sampling : BOOLEAN]

\* a selection that takes "auto" for sampling when the client supports it
ShouldUseSamplingOcrOnAuto(env, ctx) ==
    LET backend == GetOcrBackend(env)
    IN  IF backend # SamplingName /\ backend # AutoName
        THEN [kind |-> "bool", value |-> FALSE, probed |-> FALSE]
        ELSE [kind |-> "bool", value |-> ClientSupportsSampling(ctx), probed |-> TRUE]

\* should_use_sampling_ocr(ctx)
ShouldUseSamplingOcr(env, ctx) ==
    LET backend == GetOcrBackend(env)
    IN  IF backend # SamplingName
        THEN [kind |-> "bool", value |-> FALSE, probed |-> FALSE]
        ELSE [kind |-> "bool", value |-> ClientSupportsSampling(ctx), probed |-> TRUE]

SelectCalls ==
    [fn : {"extract_handwriting_ocr"}, env : Environs, lib : VisionLibraries]
    \cup [fn : {"should_use_sampling_ocr"}, env : Environs, ctx : Contexts]
    \cup [fn : {"ocr_via_sampling"}, answer : SamplingAnswers]

CallExtractHandwritingOcr ==
    /\ fn_in.fn = "extract_handwriting_ocr"
    /\ fn_out.kind = "none"
    /\ fn_out' = ExtractHandwritingOcr(fn_in.env, fn_in.lib)
    /\ UNCHANGED <<registry, callVars, store, loaderVars, taskVars, histVars,
                   restVars, fn_in, read_out, downloads, usb_call, walk, loader2>>

CallShouldUseSamplingOcr ==
    /\ fn_in.fn = "should_use_sampling_ocr"
    /\ fn_out.kind = "none"
    /\ fn_out' = ShouldUseSamplingOcr(fn_in.env, fn_in.ctx)
    /\ UNCHANGED <<registry, callVars, store, loaderVars, taskVars, histVars,
                   restVars, fn_in, read_out, downloads, usb_call, walk, loader2>>

CallOcrViaSampling ==
    /\ fn_in.fn = "ocr_via_sampling"
    /\ fn_out.kind = "none"
    /\ fn_out' = OcrViaSampling(fn_in.answer)
    /\ UNCHANGED <<registry, callVars, store, loaderVars, taskVars, histVars,
                   restVars, fn_in, read_out, downloads, usb_call, walk, loader2>>

\* one call of one of the three functions, with any input
InitSelect ==
    /\ InitRegistry
    /\ InitLoaderVars
    /\ InitSync
    /\ InitUsb
    /\ InitOcr
    /\ store = <<>>
    /\ pc = "none"
    /\ fn_in \in SelectCalls
    /\ fn_out = [kind |-> "none"]
    /\ read_out = [kind |-> "none"]
    /\ downloads = {}
    /\ usb_call = [kind |-> "none"]
    /\ loader2 = [pc |-> "none"]
    /\ walk = [pc |-> "none"]

NextSelect == CallExtractHandwritingOcr \/ CallShouldUseSamplingOcr \/ CallOcrViaSampling

SpecSelect == InitSelect /\ [][NextSelect]_vars

(***************************************************************************)
(* C21.  Backend resolution in extract_handwriting_ocr: with "auto" the    *)
(* cloud-vision function is called exactly when the client library is      *)
(* installed and the local-OCR function otherwise; with the explicit name  *)
(* "google" or "tesseract" that function is called and find_spec is not.   *)
(* Refuted: with "auto" and no google.cloud package installed, find_spec   *)
(* raises and no backend function is called.                               *)
(***************************************************************************)
C21_BackendResolution ==
    (fn_in.fn = "extract_handwriting_ocr" /\ fn_out.kind # "none") =>
        LET backend == GetOcrBackend(fn_in.env)
        IN  /\ backend = AutoName =>
                /\ fn_out.kind = "called"
                /\ fn_out.fn = (IF fn_in.lib = "installed" THEN "_ocr_google_vision"
                                ELSE "_ocr_tesseract")
            /\ backend = GoogleName =>
                /\ fn_out.kind = "called"
                /\ fn_out.fn = "_ocr_google_vision"
                /\ ~fn_out.probed
            /\ backend = TesseractName =>
                /\ fn_out.kind = "called"
                /\ fn_out.fn = "_ocr_tesseract"
                /\ ~fn_out.probed

TrimmedOf(r, t) ==
    /\ r # <<>> => (r[1] # " " /\ r[Len(r)] # " ")
    /\ \E i \in 0..Len(t) :
          /\ i + Len(r) <= Len(t)
          /\ \A k \in 1..Len(t) :
                t[k] = IF k > i /\ k <= i + Len(r) THEN r[k - i] ELSE " "

HasMarker(t) == \E i \in DOMAIN t : t[i] = Marker

C23_SamplingNeverRaises ==
    (fn_in.fn = "ocr_via_sampling" /\ fn_out.kind # "none") =>
        LET answer == fn_in.answer
            absent == \/ answer.kind \in {"no_session", "raises", "no_result",
                                          "no_text_attr"}
                      \/ answer.text = <<>>
                      \/ HasMarker(answer.text)
        IN  /\ fn_out.kind \in {"None", "str"}
            /\ absent => fn_out.kind = "None"
            /\ ~absent => (fn_out.kind = "str" /\ TrimmedOf(fn_out.text, answer.text))

\* a reply whose text was trimmed
C23_Witness ==
    /\ fn_in.fn = "ocr_via_sampling"
    /\ fn_out.kind = "str"
    /\ fn_out.text # <<>>
    /\ fn_out.text # fn_in.answer.text

(***************************************************************************)
(* Resource reads: document_resource (resources.py 37-87) and the          *)
(* doc_resource closure built by _make_doc_resource (131-165).  A returned *)
(* text is the sequence of its parts; an outcome says what the store and   *)
(* the extraction do during one read.                                      *)
(***************************************************************************)
\* every outcome, each written once: what comes after a failure, and the
\* pages and the OCR of a document that has text, do not happen
ReadOutcomes ==
    {o \in [listing : {"ok", "raises"}, download : {"ok", "raises"},
            archive : {"ok", "malformed"}, typed_text : BOOLEAN,
            highlights : BOOLEAN, pages : {0, 1}, ocr : {"raises", "None", "list"}] :
        /\ o.listing = "raises" => o.download = "ok"
        /\ (o.listing = "raises" \/ o.download = "raises") => o.archive = "ok"
        /\ (o.listing = "raises" \/ o.download = "raises" \/ o.archive = "malformed")
              => (~o.typed_text /\ ~o.highlights /\ o.pages = 0)
        /\ (o.typed_text \/ o.highlights) => o.pages = 1
        /\ (o.typed_text \/ o.highlights \/ o.pages = 0) => o.ocr = "None"}

\* doc_resource does not list the store
DocOutcomes == {o \in ReadOutcomes : o.listing = "ok"}

\* document_resource extracts without OCR and does not look at the pages
TemplateOutcomes == {o \in ReadOutcomes : o.pages = 0 \/ o.typed_text \/ o.highlights}

\* the %xx escapes quote() produces for the characters of the names
UnquoteCode(h1, h2) ==
    CASE h1 = "2" /\ h2 = "0" -> <<" ">>
      [] h1 = "2" /\ h2 = "5" -> <<"%">>
      [] h1 = "2" /\ h2 = "8" -> <<"(">>
      [] h1 = "2" /\ h2 = "9" -> <<")">>
      [] h1 = "3" /\ h2 = "F" -> <<"?">>
      [] OTHER                -> <<"%", h1, h2>>

\* urllib.parse.unquote(path)
RECURSIVE Unquote(_)
Unquote(s) ==
    IF s = <<>> THEN <<>>
    ELSE IF Head(s) = "%" /\ Len(s) >= 3
         THEN UnquoteCode(s[2], s[3]) \o Unquote(SubSeq(s, 4, Len(s)))
         ELSE <<Head(s)>> \o Unquote(Tail(s))

\* lines 75-82 and 145-150: typed text, then the highlights under their header
TextParts(o) ==
    (IF o.typed_text THEN <<"typed text">> ELSE <<>>)
    \o (IF o.highlights THEN <<"\n--- Highlights ---", "highlight">> ELSE <<>>)

\* a closure without the except clause of line 162
DocResourceUncaught(document, o) ==
    IF o.download = "raises" \/ o.archive = "malformed"
       \/ (TextParts(o) = <<>> /\ o.pages > 0 /\ o.ocr = "raises")
    THEN [kind |-> "raised", value |-> <<>>]
    ELSE [kind |-> "text",
          value |-> IF TextParts(o) # <<>> THEN TextParts(o)
                    ELSE IF o.pages > 0 /\ o.ocr = "list"
                         THEN <<"--- Handwritten (OCR) ---", "handwritten">>
                         ELSE <<"(No text content)">>]

\* doc_resource(), the closure of _make_doc_resource(client, document)
DocResource(document, o) ==
    IF o.download = "raises"
    THEN [kind |-> "text", value |-> <<"Error: ", "download">>]
    ELSE IF o.archive = "malformed"
    THEN [kind |-> "text", value |-> <<"Error: ", "archive">>]
    ELSE IF TextParts(o) = <<>> /\ o.pages > 0
    THEN IF o.ocr = "raises"
         THEN [kind |-> "text", value |-> <<"Error: ", "ocr">>]
         ELSE IF o.ocr = "list"
         THEN [kind |-> "text",
               value |-> <<"--- Handwritten (OCR) ---", "handwritten">>]
         ELSE [kind |-> "text", value |-> <<"(No text content)">>]
    ELSE IF TextParts(o) # <<>>
    THEN [kind |-> "text", value |-> TextParts(o)]
    ELSE [kind |-> "text", value |-> <<"(No text content)">>]

\* lines 51-57: the first document of the collection whose path is the
\* decoded path, as a sequence of at most one item
TargetDoc(collection, decoded_path) ==
    LET index == GetItemsById(collection)
        hits  == SelectSeq(collection,
                           LAMBDA item : /\ ~item.is_folder
                                         /\ Lstrip(GetItemPath(item, index)) = decoded_path)
    IN  SubSeq(hits, 1, Min(1, Len(hits)))

\* document_resource(path): the text, and the document downloaded if any
DocumentResource(path, o) ==
    LET decoded_path == Unquote(path)
        target       == TargetDoc(GetAllMetaItems, decoded_path)
    IN  IF o.listing = "raises"
        THEN [kind |-> "text", value |-> <<"Error reading document: ", "listing">>,
              downloaded |-> {}]
        ELSE IF target = <<>>
        THEN [kind |-> "text",
              value |-> <<"Document not found: '">> \o decoded_path \o <<"'">>,
              downloaded |-> {}]
        ELSE IF o.download = "raises"
        THEN [kind |-> "text", value |-> <<"Error reading document: ", "download">>,
              downloaded |-> {target[1].ID}]
        ELSE IF o.archive = "malformed"
        THEN [kind |-> "text", value |-> <<"Error reading document: ", "archive">>,
              downloaded |-> {target[1].ID}]
        ELSE IF TextParts(o) # <<>>
        THEN [kind |-> "text", value |-> TextParts(o), downloaded |-> {target[1].ID}]
        ELSE [kind |-> "text", value |-> <<"(No text content found)">>,
              downloaded |-> {target[1].ID}]

\* paths asked of the template: of documents at the root and in the folder,
\* quoted and not, of a folder, and of nothing in the store
RequestPaths ==
    {<<"a", "%", "2", "0">>, <<"a", " ">>, <<"f", "/", "a", "%", "2", "0">>,
     <<"f">>, <<"z", "%", "2", "8">>}

\* _register_document(client, doc, items_by_id) for a document of the listing
RegisterListed ==
    \E i \in DOMAIN Documents(store) :
        RegisterCall(Documents(store)[i], GetItemsById(store))

\* a read that unregisters the document when it fails
ReadDocResourceDropsFailed ==
    \E i \in DOMAIN resources, o \in DocOutcomes :
        LET r   == resources[i]
            out == DocResource(r.doc, o)
        IN  /\ read_out' = [kind |-> out.kind, reader |-> "doc_resource",
                            path |-> r.uri, value |-> out.value]
            /\ downloads' = {r.doc}
            /\ IF Head(out.value) = "Error: "
               THEN /\ registered_docs' = registered_docs \ {r.doc}
                    /\ registered_uris' = registered_uris \ {r.uri}
                    /\ UNCHANGED resources
               ELSE UNCHANGED registry
            /\ UNCHANGED <<callVars, store, loaderVars, taskVars, histVars, restVars,
                           fn_in, fn_out, usb_call, walk, loader2>>

\* the client reads a registered resource: doc_resource() runs
ReadDocResource ==
    \E i \in DOMAIN resources, o \in DocOutcomes :
        LET r   == resources[i]
            out == DocResource(r.doc, o)
        IN  /\ read_out' = [kind |-> out.kind, reader |-> "doc_resource",
                            path |-> r.uri, value |-> out.value]
            /\ downloads' = {r.doc}
            /\ UNCHANGED <<registry, callVars, store, loaderVars, taskVars, histVars,
                           restVars, fn_in, fn_out, usb_call, walk, loader2>>

\* the client reads remarkable://{path}.txt: document_resource(path) runs
ReadDocumentResource ==
    \E path \in RequestPaths, o \in TemplateOutcomes :
        LET out == DocumentResource(path, o)
        IN  /\ read_out' = [kind |-> out.kind, reader |-> "document_resource",
                            path |-> path, value |-> out.value]
            /\ downloads' = out.downloaded
            /\ UNCHANGED <<registry, callVars, store, loaderVars, taskVars, histVars,
                           restVars, fn_in, fn_out, usb_call, walk, loader2>>

\* a store, nothing registered and nothing read
InitRead ==
    /\ InitRegistry
    /\ InitExt
    /\ InitLoaderVars
    /\ InitSync
    /\ InitUsb
    /\ InitOcr
    /\ store \in ServerStores
    /\ pc = "none"

NextRead == RegisterListed \/ ReadDocResource \/ ReadDocumentResource

SpecRead == InitRead /\ [][NextRead]_vars

(***************************************************************************)
(* C24.  A resource read always answers with text: document_resource and   *)
(* every doc_resource closure return a text for every outcome of the       *)
(* listing, the download, the archive and the OCR, and never raise; when   *)
(* the listing was obtained and the path matches no document, the text     *)
(* holds the requested (decoded) path.                                     *)
(***************************************************************************)
\* the text v has the characters of p in it, in a row
Contains(v, p) ==
    \E i \in 1..(Len(v) + 1) :
        /\ i + Len(p) - 1 <= Len(v)
        /\ SubSeq(v, i, i + Len(p) - 1) = p

ReadFailed(out) ==
    out.kind = "text" /\ Head(out.value) \in {"Error: ", "Error reading document: "}

C24_ReadsAlwaysAnswer ==
    read_out.kind # "none" =>
        /\ read_out.kind = "text"
        /\ read_out.value # <<>>
        /\ (/\ read_out.reader = "document_resource"
            /\ TargetDoc(store, Unquote(read_out.path)) = <<>>
            /\ ~ReadFailed(read_out))
              => /\ Head(read_out.value) = "Document not found: '"
                 /\ Contains(read_out.value, Unquote(read_out.path))

\* a quoted path of no document was asked for and named in the answer
C24_Witness ==
    /\ read_out.kind = "text"
    /\ read_out.reader = "document_resource"
    /\ Head(read_out.value) = "Document not found: '"
    /\ Unquote(read_out.path) # read_out.path
    /\ Len(store) > 0

(***************************************************************************)
(* C25.  Content is fetched lazily: a step that registers a document calls *)
(* no download; download is called only in the step of a resource read;    *)
(* and a read that fails leaves the id set, the URI set and the registered *)
(* resources as they were.                                                 *)
(***************************************************************************)
C25_ContentFetchedLazily ==
    [][/\ registry' # registry => downloads' = downloads
       /\ downloads' # downloads =>
            /\ read_out'.kind # "none"
            /\ read_out'.reader = "doc_resource" =>
                 \E i \in DOMAIN resources :
                    /\ resources[i].uri = read_out'.path
                    /\ downloads' = {resources[i].doc}
       /\ (read_out' # read_out /\ ReadFailed(read_out')) =>
            UNCHANGED <<registered_docs, registered_uris, resources>>]_vars

\* the read of a registered resource failed after its document was asked of
\* the store, and the document is still registered under the URI read
C25_Witness ==
    /\ read_out.kind = "text"
    /\ read_out.reader = "doc_resource"
    /\ ReadFailed(read_out)
    /\ \E i \in DOMAIN resources :
          /\ resources[i].uri = read_out.path
          /\ resources[i].doc \in downloads
          /\ resources[i].doc \in registered_docs
          /\ resources[i].uri \in registered_uris

(***************************************************************************)
(* Direct calls of USBWebClient.get_meta_items on one client, with and     *)
(* without a limit, in any order.                                          *)
(***************************************************************************)
\* limit arguments: None, and 1 up to more than the tablet holds
UsbLimits == {NoLimit} \cup 1..(MaxUsbItems + MaxFolders)

\* client.get_meta_items(limit=lim); usb_call keeps the argument, the list
\* returned and whether no request of this or an earlier call has failed
UsbCall ==
    \E lim \in UsbLimits, fails \in SUBSET UsbUrls :
        LET got == UsbGetMetaItems(lim, fails)
        IN  /\ usb_documents' = got.cache
            /\ usb_failed' = got.failed
            /\ usb_call' = [kind |-> "returned", limit |-> lim, items |-> got.items,
                            clean |-> /\ ~got.failed
                                      /\ (usb_call.kind = "returned" => usb_call.clean)]
    /\ UNCHANGED <<registry, callVars, store, loaderVars, taskVars, histVars,
                   syncVars, ocrVars, device, fn_in, fn_out, read_out, downloads,
                   walk, loader2>>

\* a fresh client on a tablet
InitUsbCalls ==
    /\ InitRegistry
    /\ InitExt
    /\ InitLoaderVars
    /\ InitSync
    /\ InitOcr
    /\ store = <<>>
    /\ pc = "none"
    /\ device \in UsbDevices
    /\ usb_documents = <<>>
    /\ usb_failed = FALSE

NextUsbCalls == UsbCall

SpecUsbCalls == InitUsbCalls /\ [][NextUsbCalls]_vars

(***************************************************************************)
(* C26.  While no request fails, get_meta_items() without a limit returns  *)
(* every document and folder of the tablet after any earlier calls, and a  *)
(* call with limit n returns at most n items.                              *)
(* Refuted: a call with a limit replaces the cache by its truncated list,  *)
(* and the next call without a limit returns that cache.                   *)
(***************************************************************************)
\* ids of everything on the tablet
UsbAllIds == UNION {{device[u][i].ID : i \in DOMAIN device[u]} : u \in DOMAIN device}

C26_UnlimitedListingComplete ==
    (usb_call.kind = "returned" /\ usb_call.clean) =>
        /\ usb_call.limit = NoLimit =>
              {usb_call.items[i].ID : i \in DOMAIN usb_call.items} = UsbAllIds
        /\ usb_call.limit # NoLimit => Len(usb_call.items) <= usb_call.limit

(***************************************************************************)
(* Two background loaders and load_all_documents_sync on one event loop.   *)
(* A second start_background_loader call makes a second task with its own  *)
(* locals (loader2) over the same module-level sets.  A task runs from one *)
(* await to the next without interruption, and the for loop of lines       *)
(* 301-308 holds no await: while one task is inside a batch, or the sync   *)
(* load is running, no other task takes a step.                            *)
(***************************************************************************)
\* no other task is in the middle of a run
Quiet1 == sync_pc # "loop" /\ loader2.pc # "register"
Quiet2 == sync_pc # "loop" /\ pc # "register"

Loader2Frame ==
    UNCHANGED <<callVars, store, loaderVars, taskVars, histVars, restVars, fn_in,
                fn_out, read_out, downloads, usb_call, walk>>

\* start_background_loader called again while the first task exists
StartSecondLoader ==
    /\ Quiet2
    /\ pc # "none"
    /\ loader2.pc = "none"
    /\ loader2' = [pc |-> "created", offset |-> 0, consecutive_errors |-> 0,
                   items_by_id |-> EmptyIndex, batch_docs |-> <<>>, batch_pos |-> 1]
    /\ UNCHANGED registry
    /\ Loader2Frame

\* lines 249-271 in the second task
Loader2Start ==
    /\ Quiet2
    /\ loader2.pc = "created"
    /\ loader2' = [loader2 EXCEPT !.pc = "fetch"]
    /\ UNCHANGED registry
    /\ Loader2Frame

\* lines 272-274 and 288-300 in the second task
Fetch2Returns ==
    /\ Quiet2
    /\ loader2.pc = "fetch"
    /\ LET its   == GetMetaItems(loader2.offset + batch_size)
           batch == BatchDocs(Documents(its), loader2.offset)
       IN  loader2' = [loader2 EXCEPT
                          !.items_by_id = GetItemsById(its),
                          !.consecutive_errors = ErrorsAfterSuccess(@),
                          !.batch_docs = batch,
                          !.batch_pos = 1,
                          !.pc = IF batch = <<>> THEN "done" ELSE "register"]
    /\ UNCHANGED registry
    /\ Loader2Frame

\* lines 275-286 in the second task
Fetch2Raises ==
    /\ Quiet2
    /\ loader2.pc = "fetch"
    /\ loader2' = [loader2 EXCEPT
                      !.consecutive_errors = @ + 1,
                      !.pc = IF StopOnErrors(loader2.consecutive_errors + 1)
                             THEN "done" ELSE "backoff"]
    /\ UNCHANGED registry
    /\ Loader2Frame

\* line 286 in the second task
Backoff2Wakes ==
    /\ Quiet2
    /\ loader2.pc = "backoff"
    /\ loader2' = [loader2 EXCEPT !.pc = "fetch"]
    /\ UNCHANGED registry
    /\ Loader2Frame

\* lines 301-308 in the second task: one document of its batch
Register2Step ==
    /\ loader2.pc = "register"
    /\ loader2.batch_pos <= Len(loader2.batch_docs)
    /\ RegisterDocument(loader2.batch_docs[loader2.batch_pos], loader2.items_by_id)
    /\ loader2' = [loader2 EXCEPT !.batch_pos = @ + 1]
    /\ UNCHANGED <<store, loaderVars, taskVars, histVars, restVars, fn_in, fn_out,
                   read_out, downloads, usb_call, walk>>

\* lines 316-320 in the second task
Batch2Ends ==
    /\ loader2.pc = "register"
    /\ loader2.batch_pos > Len(loader2.batch_docs)
    /\ loader2' = [loader2 EXCEPT !.offset = NextOffset(@), !.pc = "yield"]
    /\ UNCHANGED registry
    /\ Loader2Frame

\* line 320 is over in the second task
Yield2Wakes ==
    /\ Quiet2
    /\ loader2.pc = "yield"
    /\ loader2' = [loader2 EXCEPT !.pc = "fetch"]
    /\ UNCHANGED registry
    /\ Loader2Frame

InitTwoLoaders ==
    /\ InitRegistry
    /\ InitExt
    /\ InitLoaderVars
    /\ InitSync
    /\ InitUsb
    /\ InitOcr
    /\ store \in ServerStores
    /\ pc = "none"

NextTwoLoaders ==
    \/ Quiet1 /\ StartBackgroundLoader
    \/ Quiet1 /\ LoaderStart
    \/ Quiet1 /\ FetchReturns
    \/ Quiet1 /\ FetchRaises
    \/ Quiet1 /\ BackoffWakes
    \/ Quiet1 /\ RegisterStep
    \/ Quiet1 /\ BatchEnds
    \/ Quiet1 /\ YieldWakes
    \/ StartSecondLoader
    \/ Loader2Start
    \/ Fetch2Returns
    \/ Fetch2Raises
    \/ Backoff2Wakes
    \/ Register2Step
    \/ Batch2Ends
    \/ Yield2Wakes
    \/ loader2.pc # "register" /\ SyncCall
    \/ SyncFetchRaises
    \/ SyncStep
    \/ SyncReturn

SpecTwoLoaders == InitTwoLoaders /\ [][NextTwoLoaders]_vars

(***************************************************************************)
(* C27.  The registry invariants hold without a lock under cooperative     *)
(* interleaving: with load_all_documents_sync and a second background      *)
(* loader running at the suspension points of a background loader, at      *)
(* every point where a task can be resumed the URIs are pairwise distinct, *)
(* each id is registered once, and the id set and the URI set are those of *)
(* the registered resources (no id without its URI).                       *)
(***************************************************************************)
C27_InterleavingKeepsRegistry ==
    /\ \A i, j \in DOMAIN resources :
          i # j => /\ resources[i].uri # resources[j].uri
                   /\ resources[i].doc # resources[j].doc
    /\ registered_docs = {resources[i].doc : i \in DOMAIN resources}
    /\ registered_uris = {resources[i].uri : i \in DOMAIN resources}

\* the first loader sleeps in its backoff, the sync load has run, and the
\* second loader has just registered a second document
C27_Witness ==
    /\ pc = "backoff"
    /\ sync_pc = "returned"
    /\ loader2.pc = "register"
    /\ loader2.batch_pos > 1
    /\ last_call.ret = "True"
    /\ Len(resources) >= 2

(***************************************************************************)
(* The loader under a fair scheduler: the event loop runs a task that can  *)
(* run, a sleep ends, a fetch handed to the executor returns or raises,    *)
(* and a requested cancellation is delivered.  Whether the stop and the    *)
(* shutdown signal happen at all is left open.                             *)
(***************************************************************************)
LoaderFairness ==
    /\ WF_vars(LoaderStart)
    /\ WF_vars(FetchReturns \/ FetchRaises)
    /\ WF_vars(BackoffWakes)
    /\ WF_vars(RegisterStep)
    /\ WF_vars(BatchEnds)
    /\ WF_vars(YieldWakes)
    /\ WF_vars(CancelDelivered)

SpecFair == Init /\ [][Next]_vars /\ LoaderFairness

(***************************************************************************)
(* C28.  On a finite store, when every fetch returns or raises, a started  *)
(* loader reaches "done" (empty batch, three consecutive errors, shutdown) *)
(* or "cancelled" for every pattern of fetch outcomes, and from then on it *)
(* issues no fetch and registers nothing.                                  *)
(***************************************************************************)
C28_LoaderTerminates ==
    /\ (pc = "created") ~> (pc \in Finished)
    /\ [][(pc \in Finished) =>
             (pc' = pc /\ UNCHANGED <<registry, callVars, limit, items, last_fetch,
                                      offset>>)]_vars

\* the loader ended after a failed fetch, a later successful one and the
\* registration of a batch
C28_Witness ==
    /\ pc = "done"
    /\ exit_reason = "complete"
    /\ fetch_failed
    /\ registered_docs # {}

(***************************************************************************)
(* load_all_documents_sync on an empty registry when no registration       *)
(* raises, as a function of the listing: the for loop of lines 234-238     *)
(* over the documents, each path resolved in the index of the whole        *)
(* listing.  The result is the sequence of [doc, uri] registered.          *)
(***************************************************************************)
RECURSIVE EagerLoop(_, _, _)
EagerLoop(docs, index, res) ==
    IF docs = <<>> THEN res
    ELSE LET doc  == Head(docs)
             ids  == {res[i].doc : i \in DOMAIN res}
             uris == {res[i].uri : i \in DOMAIN res}
         IN  IF doc.ID \in ids THEN EagerLoop(Tail(docs), index, res)
             ELSE EagerLoop(Tail(docs), index,
                            Append(res, [doc |-> doc.ID,
                                         uri |-> FinalUri(FullPath(doc, index), uris).uri]))

EagerRegistry(its) == EagerLoop(Documents(its), GetItemsById(its), <<>>)

(***************************************************************************)
(* C29.  Eager and incremental population agree: without errors, shutdown  *)
(* or cancellation, the ids registered by the background loader when it    *)
(* ends, and the URI of each, are those load_all_documents_sync registers  *)
(* on the same store.                                                      *)
(* Refuted: the loader resolves paths in the index of the items fetched so *)
(* far, and its fetch limit counts folders while its offset counts         *)
(* documents.                                                              *)
(***************************************************************************)
Assigned(res) == {[doc |-> res[i].doc, uri |-> res[i].uri] : i \in DOMAIN res}

C29_EagerAndIncrementalAgree ==
    (/\ pc = "done"
     /\ exit_reason = "complete"
     /\ ~fetch_failed
     /\ reg_errors = 0
     /\ ~shutdown_event
     /\ stopper = "idle")
        => Assigned(resources) = Assigned(EagerRegistry(store))

(***************************************************************************)
(* C30.  Fallback order of the OCR batch paths.  A call of the vision path *)
(* hands the batch to the local path when the vision library does not      *)
(* import, the client cannot be built or a page raises something other     *)
(* than a timeout or a missing tool; the local path then takes the pages   *)
(* up from the first one and its outcome is the outcome of the call.  The  *)
(* local path never hands over to the vision path, nothing follows a       *)
(* missing-tool stop, and so a batch is run by at most two backends, the   *)
(* vision one first.                                                       *)
(***************************************************************************)
TraceOf(backend) == SelectSeq(ocr_out.trace, LAMBDA t : t.backend = backend)

\* the vision path did not get to its return statement
VisionFell ==
    LET G == TraceOf("google")
    IN  \/ ~ocr_in.env.vision_import
        \/ ~ocr_in.env.client_ok
        \/ /\ G # <<>>
           /\ PageRaises("google", ocr_in.pages[G[Len(G)].page], ocr_in.env)

C30_FallbackOrder ==
    ocr_in.fn # "none" =>
        LET G     == TraceOf("google")
            T     == TraceOf("tesseract")
            alone == OcrTesseract(ocr_in, <<>>)
        IN  /\ ocr_out.trace = G \o T
            /\ \A j \in DOMAIN G : G[j].page = j
            /\ \A j \in DOMAIN T : T[j].page = j
            /\ ocr_in.fn = "tesseract" => G = <<>>
            /\ (ocr_in.fn = "google" /\ VisionFell) =>
                  /\ T = alone.trace
                  /\ ocr_out.kind = alone.kind
                  /\ ocr_out.value = alone.value
            /\ (ocr_in.fn = "google" /\ ~VisionFell) => T = <<>>
            /\ (G # <<>> /\ MissingTool(ocr_in.pages[G[Len(G)].page], ocr_in.env)) =>
                  /\ T = <<>>
                  /\ ocr_out.kind = "None"

\* the vision engine raised on the second of three pages, and the local
\* backend read all three from the first
C30_Witness ==
    /\ ocr_in.fn = "google"
    /\ ocr_in.pages = <<"text", "vision_raises", "text">>
    /\ Len(TraceOf("google")) = 2
    /\ Len(TraceOf("tesseract")) = 3
    /\ ocr_out.kind = "list"
    /\ Len(ocr_out.value) = 3

(***************************************************************************)
(* USBWebClient.get_meta_items taken one iteration of its while loop at a  *)
(* time, over tablets whose folder listings may name a folder again: the   *)
(* folder itself, a folder met earlier, or the root (an entry whose ID is  *)
(* empty gives the URL "/documents/").  walk holds the locals of the call. *)
(***************************************************************************)
\* folder ids that have a listing of their own
MaxWalkFolders == 2

WalkFolders == 1..MaxWalkFolders

\* the folder entries a listing holds besides its document
LinkEntries(L) ==
    IF L = {} THEN <<>>
    ELSE <<[ID |-> CHOOSE x \in L : TRUE, VissibleName |-> <<"f">>, is_folder |-> TRUE]>>

\* a root of n entries with the folders F, and each folder listing its
\* document and the folder entries of links
WalkDevice(n, F, links) ==
    [u \in {0} \cup WalkFolders |->
        IF u = 0 THEN [i \in 1..n |-> UsbEntry(i, F)]
        ELSE <<[ID |-> ChildOf(u), VissibleName |-> ItemName(ChildOf(u)),
                is_folder |-> FALSE]>> \o LinkEntries(links[u])]

\* folder ids named by the listings of the URLs in R
ListedFolders(dev, R) ==
    UNION {{dev[u][i].ID : i \in {j \in DOMAIN dev[u] : dev[u][j].is_folder}} :
              u \in R \cap DOMAIN dev}

RECURSIVE LinkedFrom(_, _)
LinkedFrom(dev, R) ==
    LET next == R \cup ListedFolders(dev, R)
    IN  IF next = R THEN R ELSE LinkedFrom(dev, next)

\* tablets, one per shape: a folder no listing leads to holds no link
WalkDevices ==
    LET n == Min(MaxUsbItems, MaxWalkFolders)
        all == {WalkDevice(n, F, links) :
                   F \in SUBSET (1..n),
                   links \in [WalkFolders ->
                                 {L \in SUBSET ({0} \cup WalkFolders) : Cardinality(L) <= 1}]}
    IN  {dev \in all :
            \A f \in WalkFolders \ LinkedFrom(dev, {0}) : Len(dev[f]) = 1}

\* line 201 left out: no URL counts as processed
ProcessedNever(url, processed_folders) == FALSE

\* line 201: url in processed_folders
Processed(url, processed_folders) == url \in processed_folders

\* lines 214-216: the folders of the parsed entries, in order
FolderUrls(docs) ==
    LET folders == SelectSeq(docs, LAMBDA d : d.is_folder)
    IN  [i \in 1..Len(folders) |-> folders[i].ID]

\* lines 185-190: the call is answered from the cache
WalkCached ==
    /\ walk.pc \in {"none", "returned"}
    /\ \E lim \in UsbLimits :
          /\ usb_documents # <<>>
          /\ lim # NoLimit => Len(usb_documents) >= lim
          /\ walk' = [pc |-> "returned", limit |-> lim, walked |-> FALSE,
                      folders_to_process |-> <<>>, processed_folders |-> {},
                      documents |-> <<>>, requests |-> <<>>, failed |-> {},
                      ret |-> IF lim = NoLimit THEN usb_documents
                              ELSE SubSeq(usb_documents, 1, lim)]
    /\ UNCHANGED <<registry, callVars, store, loaderVars, taskVars, histVars,
                   restVars, fn_in, fn_out, read_out, downloads, usb_call, loader2>>

\* lines 192-194: the call starts a traversal at the root
WalkBegins ==
    /\ walk.pc \in {"none", "returned"}
    /\ \E lim \in UsbLimits :
          /\ ~(usb_documents # <<>> /\ (lim # NoLimit => Len(usb_documents) >= lim))
          /\ walk' = [pc |-> "loop", limit |-> lim, walked |-> TRUE,
                      folders_to_process |-> <<0>>, processed_folders |-> {},
                      documents |-> <<>>, requests |-> <<>>, failed |-> {},
                      ret |-> <<>>]
    /\ UNCHANGED <<registry, callVars, store, loaderVars, taskVars, histVars,
                   restVars, fn_in, fn_out, read_out, downloads, usb_call, loader2>>

\* lines 198-202: the URL popped was processed before
WalkSkips ==
    /\ walk.pc = "loop"
    /\ walk.folders_to_process # <<>>
    /\ Processed(Head(walk.folders_to_process), walk.processed_folders)
    /\ walk' = [walk EXCEPT !.folders_to_process = Tail(@)]
    /\ UNCHANGED <<registry, callVars, store, loaderVars, taskVars, histVars,
                   restVars, fn_in, fn_out, read_out, downloads, usb_call, loader2>>

\* lines 203-207 and 225-227: the request of the URL popped raises
WalkRequestFails ==
    /\ walk.pc = "loop"
    /\ walk.folders_to_process # <<>>
    /\ LET url == Head(walk.folders_to_process)
       IN  /\ ~Processed(url, walk.processed_folders)
           /\ walk' = [walk EXCEPT !.folders_to_process = Tail(@),
                                   !.processed_folders = @ \cup {url},
                                   !.requests = Append(@, url),
                                   !.failed = @ \cup {url}]
    /\ UNCHANGED <<registry, callVars, store, loaderVars, taskVars, histVars,
                   restVars, fn_in, fn_out, read_out, downloads, usb_call, loader2>>

\* lines 203-223 and 229-233: the request answers and the for loop takes its
\* entries; on reaching the limit both loops break and the call returns
WalkListing ==
    /\ walk.pc = "loop"
    /\ walk.folders_to_process # <<>>
    /\ LET url == Head(walk.folders_to_process)
           entries == device[url]
           k == TakenEntries(entries, Len(walk.documents), walk.limit)
           docs == [i \in 1..k |-> ParseDocumentEntry(entries[i], url)]
           all == walk.documents \o docs
           broke == walk.limit # NoLimit /\ Len(all) >= walk.limit
       IN  /\ ~Processed(url, walk.processed_folders)
           /\ url \in DOMAIN device
           /\ walk' = [walk EXCEPT
                         !.pc = IF broke THEN "returned" ELSE "loop",
                         !.folders_to_process = Tail(@) \o FolderUrls(docs),
                         !.processed_folders = @ \cup {url},
                         !.requests = Append(@, url),
                         !.documents = all,
                         !.ret = IF broke THEN all ELSE @]
           /\ usb_documents' = IF broke THEN all ELSE usb_documents
    /\ UNCHANGED <<registry, callVars, store, loaderVars, taskVars, histVars,
                   syncVars, ocrVars, device, usb_failed, fn_in, fn_out, read_out,
                   downloads, usb_call, loader2>>

\* lines 197 and 229-233: no folder is left, the cache is replaced and the
\* list returned
WalkEnds ==
    /\ walk.pc = "loop"
    /\ walk.folders_to_process = <<>>
    /\ walk' = [walk EXCEPT !.pc = "returned", !.ret = walk.documents]
    /\ usb_documents' = walk.documents
    /\ UNCHANGED <<registry, callVars, store, loaderVars, taskVars, histVars,
                   syncVars, ocrVars, device, usb_failed, fn_in, fn_out, read_out,
                   downloads, usb_call, loader2>>

\* a fresh client on a tablet
InitUsbWalk ==
    /\ InitRegistry
    /\ InitExt
    /\ InitLoaderVars
    /\ InitSync
    /\ InitOcr
    /\ store = <<>>
    /\ pc = "none"
    /\ device \in WalkDevices
    /\ usb_documents = <<>>
    /\ usb_failed = FALSE

NextUsbWalk ==
    \/ WalkCached
    \/ WalkBegins
    \/ WalkSkips
    \/ WalkRequestFails
    \/ WalkListing
    \/ WalkEnds

\* a call runs on: get_meta_items is synchronous code
WalkFairness == WF_vars(WalkSkips \/ WalkRequestFails \/ WalkListing \/ WalkEnds)

SpecUsbWalk == InitUsbWalk /\ [][NextUsbWalk]_vars /\ WalkFairness

(***************************************************************************)
(* C31.  The folder traversal of get_meta_items ends on every tablet, also *)
(* one where a folder's listing names that folder or a folder above it:    *)
(* every call that starts a traversal returns, no URL is requested twice   *)
(* in one call, and after a failed request the traversal goes on, so that  *)
(* a call without a limit has requested every URL that the answered        *)
(* listings lead to and returns the entries of each answered listing.      *)
(***************************************************************************)
\* URLs the root leads to through the listings outside bad
RECURSIVE WalkReach(_, _)
WalkReach(R, bad) ==
    LET next == R \cup ListedFolders(device, R \ bad)
    IN  IF next = R THEN R ELSE WalkReach(next, bad)

RequestedOnce ==
    walk.pc # "none" =>
        \A i, j \in DOMAIN walk.requests :
            i # j => walk.requests[i] # walk.requests[j]

\* what a listing of url gives when parsed
ParsedListing(url) ==
    [i \in DOMAIN device[url] |-> ParseDocumentEntry(device[url][i], url)]

FailureSkipped ==
    (walk.pc = "returned" /\ walk.walked /\ walk.limit = NoLimit) =>
        LET requested == {walk.requests[i] : i \in DOMAIN walk.requests}
        IN  /\ requested = WalkReach({0}, walk.failed)
            /\ \A url \in requested :
                  SelectSeq(walk.ret, LAMBDA d : d.Parent = url) =
                      IF url \in walk.failed THEN <<>> ELSE ParsedListing(url)

C31_TraversalTerminates ==
    /\ (walk.pc = "loop") ~> (walk.pc = "returned")
    /\ []RequestedOnce
    /\ []FailureSkipped

\* a call without a limit has returned; a request failed and a later one
\* was answered, whose listing named that folder or one requested before it
C31_Witness ==
    /\ walk.pc = "returned"
    /\ walk.walked
    /\ walk.limit = NoLimit
    /\ \E i, j \in DOMAIN walk.requests :
          /\ i < j
          /\ walk.requests[i] \in walk.failed
          /\ walk.requests[j] \notin walk.failed
          /\ \E h \in 1..j, e \in DOMAIN device[walk.requests[j]] :
                /\ device[walk.requests[j]][e].is_folder
                /\ device[walk.requests[j]][e].ID = walk.requests[h]
                /\ walk.requests[h] # 0

====
